---- MODULE Spec2Model ----
(***************************************************************************)
(* A model of the Ecuador National Assembly scrapers:                      *)
(*   - ImprovedPaginationEcuadorScraper (improved_pagination_scraper.py)   *)
(*   - ComprehensivePDFScraper          (comprehensive_pdf_scraper.py)     *)
(*   - ImprovedPDFDownloader            (improved_pdf_downloader.py)       *)
(*   - the script scrape_ecuador.py                                        *)
(* One run of one entry point is one behaviour; the web site, the browser  *)
(* and the HTTP session are the environment, whose answers are drawn from  *)
(* small sets.                                                             *)
(***************************************************************************)
EXTENDS Integers, Sequences, FiniteSets, TLC

\* ------------------------------------------------------------------ bounds
\* Largest page number the site's indicator shows.
MaxInd == 2
\* Largest number of data rows of a results table (the header row is extra).
MaxRows == 2
\* Largest page total the site announces in the short site profiles.
MaxTotal == 2
\* Page total of the long listing (the safety valve needs more than 10 pages).
LongTotal == 12
\* Largest value of the --max-pages argument (0 is "not given" or 0).
MaxPagesArg == 2
\* Number of records handed to the stand-alone downloader.
MaxProjects == 2
\* ComprehensivePDFScraper runs: rows of a table, announced page total.
CompMaxRows == 1
CompMaxTotal == 2
\* Largest number of pagination phrases in a page text.
MaxPhrases == 2
\* Largest number of elements the date selectors return, all together.
MaxInputs == 2
\* Page total of the listing whose indicator comes back to a number it has
\* shown before.
WrapTotal == 3

\* ------------------------------------------------------ program constants
\* page_num > 10 in the safety check of scrape_all_pages.
SafetyPage == 10
\* Screenshots are taken while current_page <= 3.
ScreenshotPages == 3
\* Default page count when nothing is discoverable.
DefaultTotalPages == 275
\* Default record count, and the page size.
DefaultTotalRecords == 2742
ItemsPerPage == 10
\* scrape_ecuador.py: a table is the main one with at least 8 data rows.
MinFilas == 8

VARIABLES
    entry,            \* which program runs
    site,             \* the profile of the site this run talks to
    pc,               \* position of the run
    browser,          \* the Chrome process: "none", "running", "quit"
    driverRef,        \* self.driver (or main's local driver) is set
    boot,             \* how the navigate_to_iframe call just made went, "passed"
                      \* once the run has moved on from it
    interrupted,      \* a KeyboardInterrupt was delivered
    max_pages,        \* the max_pages argument (0: None or 0, which
                      \* "if max_pages:" does not tell apart)
    current_page,     \* self.current_page
    indicator,        \* what the page text shows: <<>> or <<current>>
    total_pages,      \* local total_pages of scrape_all_pages
    page_num,         \* loop variable of scrape_all_pages
    page_info,        \* the page text after the search (as a list of pagination
                      \* phrases) and what get_total_records_and_pages made of it
    all_projects,     \* self.all_projects / local all_projects
    seen_project_ids, \* self.seen_project_ids
    offered,          \* (title, description) pairs the extractor emitted so far
    extracted,        \* the last extract_table_data call: rows with anchors or
                      \* buttons, their records, the dialogs opened
    nav,              \* the navigate_to_next_page call in progress / last made
    iter,             \* what the last loop iteration did
    scraped,          \* what scrape_all_pages returned
    ret,              \* what start_scraping returned
    summary,          \* the summary file of the run: "none" or "saved"
    csv,              \* the CSV file of the run: its header and its data rows
    calls,            \* how often scrape_all_pages has extracted a page and
                      \* called navigate_to_next_page
    location,         \* what the browser displays: "none", the results
                      \* "listing", or a "document" opened by a download
    form,             \* the find_and_fill_date_inputs call just made: the
                      \* inputs met and what was typed into each; empty once
                      \* the search was submitted
    files,            \* the PDF directory: path -> "absent" | "empty" | "data" | "junk"
    requests,         \* network requests issued by the acquisition call under way
    dl,               \* the download loop: records, position, counters
    acq               \* the last acquisition call: its inputs and result

vars == << entry, site, pc, browser, driverRef, boot, interrupted, max_pages,
           current_page, indicator, total_pages, page_num, page_info,
           all_projects,
           seen_project_ids, offered, extracted, nav, iter, scraped, ret, summary, csv, location, form, calls,
           files, requests, dl, acq >>

runVars  == << browser, driverRef >>
pageVars == << current_page, indicator, total_pages, page_num, page_info, boot >>
dataVars == << all_projects, seen_project_ids, offered, extracted >>
dlVars   == << files, requests, dl, acq >>

\* ------------------------------------------------------------- sequences
Last(s) == s[Len(s)]

RECURSIVE SeqToSet(_)
SeqToSet(s) == IF s = <<>> THEN {} ELSE {s[1]} \cup SeqToSet(Tail(s))

Min(a, b) == IF a < b THEN a ELSE b

\* ------------------------------------------------------------------ urls
\* A URL, as far as the code looks at it: the basename of its path, whether
\* that basename has a dot, and whether the whole URL ends in ".pdf".
NoUrl    == [ base |-> "", dot |-> FALSE, ends_pdf |-> FALSE ]
Url_Doc  == [ base |-> "doc.pdf", dot |-> TRUE, ends_pdf |-> TRUE ]
Url_View == [ base |-> "view", dot |-> FALSE, ends_pdf |-> FALSE ]

\* ------------------------------------------------------------------ site
\* Cell texts.  "a_" with "b" and "a" with "_b" build the same composite key.
Row_AuB  == << "a_", "b" >>
Row_AUb  == << "a", "_b" >>
Row_C    == << "c", "" >>
Row_Void == << "", "" >>
Row_One  == << "c" >>
\* Rows of three, six and seven cells.
Row_Three == << "c", "d", "s" >>
Row_Six   == << "c", "d", "s", "t", "u", "v" >>
Row_Seven == << "c", "d", "s", "t", "u", "v", "w" >>

AllRows == { Row_AuB, Row_AUb, Row_C, Row_Void, Row_One }

Inds(n) == { <<>> } \cup { << i >> : i \in 1..n }

\* What a run's site can show.  "nav": every navigation control and every
\* indicator, one kind of row.  "rows": every kind of row, simple navigation.
\* "long": a long listing.  "links": one page whose rows carry anchors and
\* buttons.  "texts": one page with any pagination phrases in its text.
\* "wrap": pages of one record each, an indicator that alternates.
SiteProfiles ==
    { [ name |-> "nav",  rows |-> { Row_C }, inds |-> Inds(MaxInd),
        controls |-> SUBSET { "next", "input", "link" },
        totals |-> 1..MaxTotal, raises |-> BOOLEAN ],
      [ name |-> "rows", rows |-> AllRows, inds |-> Inds(2),
        controls |-> { { "next" } },
        totals |-> 1..MaxTotal, raises |-> { FALSE } ],
      [ name |-> "long", rows |-> { Row_C, Row_Void }, inds |-> { <<1>>, <<2>> },
        controls |-> { { "next" } },
        totals |-> { LongTotal }, raises |-> { FALSE } ],
      [ name |-> "links", rows |-> { Row_C, Row_AuB }, inds |-> { <<1>> },
        controls |-> { { "next" } },
        totals |-> { 1 }, raises |-> { FALSE } ],
      [ name |-> "texts", rows |-> { Row_C }, inds |-> { <<>> },
        controls |-> { { "next" } },
        totals |-> { 1 }, raises |-> { FALSE } ],
      [ name |-> "wrap", rows |-> { Row_C, Row_AuB }, inds |-> { <<1>>, <<2>> },
        controls |-> { { "next" } },
        totals |-> { WrapTotal }, raises |-> { FALSE } ] }

\* A table row as the browser gives it: the texts of its cells, its anchors
\* and its buttons.
PlainRow(cells) == [ cells |-> cells, anchors |-> <<>>, buttons |-> <<>> ]

\* An anchor: its href and its text.  "ver" is a keyword of both link
\* searches, "documento" only of the search in the cells.
Anchor(href, text) == [ href |-> href, text |-> text ]

\* A button whose onclick names a PDF.
OnclickButton(url) ==
    [ kind |-> "onclick", url |-> url, click |-> "none", links |-> <<>>,
      close |-> "none" ]

\* A "Ver Documentos" button and what the browser does when it is used.
\* click: the click raises, no displayed dialog is found, or a dialog shows;
\* links: what find_pdf_links_in_dialog returns; close: a displayed close
\* control is clicked, there is none, clicking it raises, or that and the
\* escape key raises too.
DialogButton(click, links, close) ==
    [ kind |-> "dialog", url |-> NoUrl, click |-> click, links |-> links,
      close |-> close ]

DialogButtons ==
    { DialogButton("raises", <<>>, "none"), DialogButton("no_dialog", <<>>, "none") }
    \cup { DialogButton("dialog", links, close) :
              links \in { <<>>, << Url_View >> },
              close \in { "clicked", "none_displayed", "click_raises",
                          "escape_raises" } }

\* The rows of the listing with document references: the first data row in
\* every shape, the second in a few.
LinkRows ==
    { [ cells |-> Row_C, anchors |-> anchors, buttons |-> buttons ] :
        anchors \in { <<>>, << Anchor(Url_Doc, "") >>, << Anchor(Url_Doc, "ver") >>,
                      << Anchor(Url_View, "ver") >>,
                      << Anchor(Url_View, "documento") >> },
        buttons \in { <<>>, << OnclickButton(Url_Doc) >> }
                    \cup { << b >> : b \in DialogButtons } }

SecondRows ==
    { [ cells |-> Row_AuB, anchors |-> anchors, buttons |-> <<>> ] :
        anchors \in { <<>>, << Anchor(Url_Doc, "") >>, << Anchor(Url_View, "ver") >> } }

\* Rows of other widths, each with one anchor.
WideRows ==
    { [ cells |-> cells, anchors |-> << Anchor(Url_Doc, "") >>, buttons |-> <<>> ] :
        cells \in { Row_Three, Row_Six, Row_Seven } }

LinkTables ==
    { << PlainRow(Row_C), r >> : r \in LinkRows \cup WideRows }
    \cup { << PlainRow(Row_C), r, q >> : r \in LinkRows, q \in SecondRows }

Tables(s) ==
    IF s.name = "links" THEN LinkTables
    ELSE IF s.name = "wrap"
    THEN { << PlainRow(Row_C), PlainRow(cells) >> : cells \in s.rows }
    ELSE UNION { [ 1..n -> { PlainRow(cells) : cells \in s.rows } ]
                   : n \in 0..(MaxRows + 1) }

\* The site as the other two programs see it.
PlainSite == CHOOSE sp \in SiteProfiles : sp.name = "rows"

\* ------------------------------------------------------- pagination state
\* get_current_page_number: the first match of a page pattern in the page
\* text, else the stored current page.
GetCurrentPageNumber(text, cp) == IF text # <<>> THEN text[1] ELSE cp

\* The verification after a navigation attempt.
AlwaysVerified(new_page_info, current_page_info) == TRUE
Verified(new_page_info, current_page_info) == new_page_info # current_page_info

Strategies == << "next", "input", "link", "url" >>

StrategyIndex(s) == CHOOSE k \in 1..4 : Strategies[k] = s

\* The strategies navigate_to_next_page still reaches from position k: the
\* controls found, and the URL rewrite, which needs no control.
SkipsUrl(k, avail) == { j \in k..3 : Strategies[j] \in avail }
Reachable(k, avail) == { j \in k..4 : Strategies[j] \in avail \cup { "url" } }

\* The next strategy tried from position k, 0 when none is left.
NextStrategy(k, avail) ==
    IF Reachable(k, avail) = {} THEN 0
    ELSE CHOOSE j \in Reachable(k, avail) : \A i \in Reachable(k, avail) : j <= i

\* What one attempt can do to the page: raise (the page stays), or leave the
\* page showing some indicator.
Outcomes(s, text) ==
    { [ raise |-> TRUE, ind |-> text ] : r \in s.raises \ { FALSE } }
        \cup { [ raise |-> FALSE, ind |-> i ] : i \in s.inds }

\* The safety check at the end of a loop iteration of scrape_all_pages.
SafetyStopAnyPage(n, found) == found = 0
SafetyStop(n, found) == n > SafetyPage /\ found = 0

\* get_total_records_and_pages: the first page pattern gives current and
\* total; otherwise the defaults.  total is what the text announces.
GetTotalPages(text, total) == IF text # <<>> THEN total ELSE DefaultTotalPages
GetFirstPage(text) == IF text # <<>> THEN text[1] ELSE 1

\* A phrase of the page text that one of the patterns of
\* get_total_records_and_pages matches: "N of M", "Página N de M", "N/M",
\* "N de M" (a: N, b: M), or "total de registros: N", "total records: N",
\* "registros: N", "records: N" (a: N); "other": text no pattern matches.
Phrase(kind, a, b) == [ kind |-> kind, a |-> a, b |-> b ]

PhrasePool ==
    { Phrase("of", 1, 7), Phrase("pagina", 3, DefaultTotalPages),
      Phrase("slash", 14, 5), Phrase("de", 2, 9),
      Phrase("total_de_registros", 25, 0), Phrase("total_records", 11, 0),
      Phrase("registros", 40, 0), Phrase("records", 5, 0),
      Phrase("other", 0, 0) }

\* The page texts: the phrases in the order of the text.
PageTexts == UNION { [ 1..n -> PhrasePool ] : n \in 0..MaxPhrases }

\* page_patterns and total_patterns, in the order of the lists.
PagePatternsReversed == << "de", "slash", "pagina", "of" >>
PagePatterns  == << "of", "pagina", "slash", "de" >>
TotalPatterns == << "total_de_registros", "total_records", "registros", "records" >>

\* re.findall(pattern, page_content, re.IGNORECASE) finds the phrase: the
\* pattern for "N de M" also matches inside "Página N de M", the one for
\* "registros: N" inside "total de registros: N", the one for "records: N"
\* inside "total records: N".
PatternMatches(pattern, phrase) ==
    CASE pattern = "de"        -> phrase.kind \in { "de", "pagina" }
      [] pattern = "registros" -> phrase.kind \in { "registros", "total_de_registros" }
      [] pattern = "records"   -> phrase.kind \in { "records", "total_records" }
      [] OTHER                 -> phrase.kind = pattern

FindAll(pattern, text) == SelectSeq(text, LAMBDA ph : PatternMatches(pattern, ph))

\* The matches of the first pattern of the list that has any, else <<>>.
RECURSIVE FirstPatternMatches(_, _)
FirstPatternMatches(patterns, text) ==
    IF patterns = <<>> THEN <<>>
    ELSE IF FindAll(patterns[1], text) # <<>> THEN FindAll(patterns[1], text)
    ELSE FirstPatternMatches(Tail(patterns), text)

\* The dict get_total_records_and_pages returns.
PaginationInfo(records, pages, current) ==
    [ total_records |-> records, total_pages |-> pages,
      items_per_page |-> ItemsPerPage, current_page |-> current ]

\* What is returned without a driver, and the defaults "based on known
\* information".
NoDriverPageInfo == PaginationInfo(0, 0, 0)
DefaultPageInfo  == PaginationInfo(DefaultTotalRecords, DefaultTotalPages, 1)

\* get_total_records_and_pages on a page text; raises: reading page_source
\* raised.
GetTotalRecordsAndPages(text, raises) ==
    LET pages  == FirstPatternMatches(PagePatterns, text)
        totals == FirstPatternMatches(TotalPatterns, text)
    IN IF raises THEN DefaultPageInfo
       ELSE IF pages # <<>>
       THEN PaginationInfo(pages[1].b * ItemsPerPage, pages[1].b, pages[1].a)
       ELSE IF totals # <<>>
       THEN PaginationInfo(totals[1].a, (totals[1].a + 9) \div ItemsPerPage, 1)
       ELSE DefaultPageInfo

\* What get_current_page_number finds in the same text.
IndicatorOf(text) ==
    IF FirstPatternMatches(PagePatterns, text) # <<>>
    THEN << FirstPatternMatches(PagePatterns, text)[1].a >> ELSE <<>>

NoPageInfo == [ called |-> FALSE, text |-> <<>>, raised |-> FALSE,
                result |-> PaginationInfo(0, 0, 0) ]

\* if max_pages: total_pages = min(total_pages, max_pages)
CapPages(total, arg) == IF arg # 0 THEN Min(total, arg) ELSE total

NoNav == [ called |-> FALSE, pre |-> 0, cpBefore |-> 0, avail |-> {}, k |-> 1,
           tried |-> <<>>, raised |-> FALSE, reread |-> 0, done |-> FALSE,
           result |-> FALSE ]

\* ------------------------------------------------------------ extraction
\* The composite key of extract_current_page_data.
ProjectKey(project) == project.title \o "_" \o project.description

\* The text of the k-th cell of a row, the default '' when the row is shorter.
Cell(cells, k) == IF Len(cells) >= k THEN cells[k] ELSE ""

\* The record of a row before its links are looked for.  has_pdf_links says
\* that the dict has the key 'pdf_links'; pdf_file_path <<>> that it has no
\* key 'pdf_file_path'.
Project(cells, cp, j) ==
    [ id |-> << cp, 1, j >>, title |-> cells[1], description |-> cells[2],
      status |-> Cell(cells, 3), date_created |-> Cell(cells, 4),
      author |-> Cell(cells, 5), committee |-> Cell(cells, 6),
      document_url |-> NoUrl, has_pdf_links |-> FALSE, pdf_links |-> <<>>,
      pdf_file_path |-> <<>>, page_number |-> cp ]

\* '.pdf', 'pdf' or 'download' occurs in the href.
HrefLooksPdf(url) == url.ends_pdf
\* The link text holds one of 'pdf', 'descargar', 'download', 'ver'.
TableKeyword(text) == text = "ver"
\* The same, or 'documento'.
CellKeyword(text) == text \in { "ver", "documento" }

\* find_pdf_links_in_table: each anchor is added once for its href and once
\* more for its text, then the URLs in the onclick of the buttons.
RECURSIVE AnchorLinksInTable(_)
AnchorLinksInTable(anchors) ==
    IF anchors = <<>> THEN <<>>
    ELSE (IF HrefLooksPdf(anchors[1].href) THEN << anchors[1].href >> ELSE <<>>)
         \o (IF TableKeyword(anchors[1].text) THEN << anchors[1].href >> ELSE <<>>)
         \o AnchorLinksInTable(Tail(anchors))

RECURSIVE OnclickLinks(_)
OnclickLinks(buttons) ==
    IF buttons = <<>> THEN <<>>
    ELSE (IF buttons[1].kind = "onclick" THEN << buttons[1].url >> ELSE <<>>)
         \o OnclickLinks(Tail(buttons))

FindPdfLinksInTable(row) == AnchorLinksInTable(row.anchors) \o OnclickLinks(row.buttons)

\* document_url if it is empty, the key 'pdf_links' if it is missing, append.
AddLink(project, href) ==
    [ project EXCEPT !.document_url = IF @ = NoUrl THEN href ELSE @,
                     !.has_pdf_links = TRUE,
                     !.pdf_links = Append(@, href) ]

\* "Look for PDF links in the entire row".
TableTier(project, row) ==
    LET pdf_links == FindPdfLinksInTable(row)
    IN IF pdf_links # <<>>
       THEN [ project EXCEPT !.has_pdf_links = TRUE, !.pdf_links = pdf_links,
                             !.document_url = pdf_links[1] ]
       ELSE project

\* "Also look for links in individual cells".
RECURSIVE CellTier(_, _)
CellTier(project, anchors) ==
    IF anchors = <<>> THEN project
    ELSE CellTier(IF HrefLooksPdf(anchors[1].href) \/ CellKeyword(anchors[1].text)
                  THEN AddLink(project, anchors[1].href)
                  ELSE project,
                  Tail(anchors))

\* What the links found without opening a dialog give.
DirectTier(project, row) == CellTier(TableTier(project, row), row.anchors)

\* A "Ver Documentos" button: the links of the dialog replace the record's
\* when there are any; a click that raises or a dialog that does not show is
\* logged.
DialogTierDropsLinks(project, button) ==
    IF button.click = "dialog" /\ button.links # <<>>
    THEN [ project EXCEPT !.has_pdf_links = TRUE, !.pdf_links = button.links,
                          !.document_url = button.links[1] ]
    ELSE [ project EXCEPT !.has_pdf_links = FALSE, !.pdf_links = <<>>,
                          !.document_url = NoUrl ]
DialogTier(project, button) ==
    IF button.click = "dialog" /\ button.links # <<>>
    THEN [ project EXCEPT !.has_pdf_links = TRUE, !.pdf_links = button.links,
                          !.document_url = button.links[1] ]
    ELSE project

\* Closing the dialog: the first displayed close control is clicked; the
\* escape key is sent from the except clause only.
CloseDialog(close) ==
    [ click  |-> CASE close = "clicked" -> "clicked"
                   [] close = "none_displayed" -> "none"
                   [] OTHER -> "raises",
      escape |-> CASE close = "click_raises" -> "sent"
                   [] close = "escape_raises" -> "raises"
                   [] OTHER -> "none" ]

\* "Look for buttons that might trigger PDF downloads".
RECURSIVE ButtonTier(_, _)
ButtonTier(project, buttons) ==
    IF buttons = <<>> THEN project
    ELSE ButtonTier(IF buttons[1].kind = "dialog"
                    THEN DialogTier(project, buttons[1])
                    ELSE AddLink(project, buttons[1].url),
                    Tail(buttons))

\* The dialogs a row opened and what was done to close each.
RECURSIVE DialogLog(_)
DialogLog(buttons) ==
    IF buttons = <<>> THEN <<>>
    ELSE (IF buttons[1].kind = "dialog" /\ buttons[1].click = "dialog"
          THEN << [ found |-> buttons[1].links # <<>>,
                    control |-> buttons[1].close # "none_displayed",
                    done |-> CloseDialog(buttons[1].close) ] >>
          ELSE <<>>)
         \o DialogLog(Tail(buttons))

ExtractRow(row, cp, j) ==
    ButtonTier(DirectTier(Project(row.cells, cp, j), row), row.buttons)

\* extract_table_data: rows[1:] of the table, a row with at least two cells
\* and a title or a description gives a record.
RECURSIVE ExtractRows(_, _, _)
ExtractRows(table, cp, j) ==
    IF j + 1 > Len(table) THEN <<>>
    ELSE LET cells == table[j + 1].cells
             rest  == ExtractRows(table, cp, j + 1)
         IN IF Len(cells) >= 2 /\ (cells[1] # "" \/ cells[2] # "")
            THEN << ExtractRow(table[j + 1], cp, j) >> \o rest
            ELSE rest

ExtractTableData(table, cp) == ExtractRows(table, cp, 1)

\* The data rows with anchors or buttons, by row number, and the dialogs
\* they opened.
MarkedRows(table) ==
    [ j \in { k \in 1..(Len(table) - 1) :
                table[k + 1].anchors # <<>> \/ table[k + 1].buttons # <<>> }
        |-> table[j + 1] ]

RECURSIVE DialogsOf(_, _)
DialogsOf(table, j) ==
    IF j + 1 > Len(table) THEN <<>>
    ELSE (IF Len(table[j + 1].cells) >= 2 THEN DialogLog(table[j + 1].buttons)
          ELSE <<>>)
         \o DialogsOf(table, j + 1)

NotExtracted == [ raised |-> FALSE,
                  rows |-> << >>, records |-> <<>>, dialogs |-> <<>>,
                  cells |-> << >> ]

\* The duplicate test of the deduplication loop.
IsNewKeyAlways(key, seen) == TRUE
IsNewKey(key, seen) == key \notin seen

RECURSIVE Dedup(_, _, _)
Dedup(projects, seen, unique) ==
    IF projects = <<>> THEN [ projects |-> unique, seen |-> seen ]
    ELSE LET key == ProjectKey(projects[1])
         IN IF IsNewKey(key, seen)
            THEN Dedup(Tail(projects), seen \cup { key }, Append(unique, projects[1]))
            ELSE Dedup(Tail(projects), seen, unique)

\* extract_current_page_data: the screenshot (first pages only) may raise,
\* and then the empty list is returned.
ExtractCurrentPageData(table, cp, seen, shotRaises) ==
    IF cp <= ScreenshotPages /\ shotRaises
    THEN [ projects |-> <<>>, seen |-> seen, table_data |-> <<>>,
           extracted |-> [ NotExtracted EXCEPT !.raised = TRUE ] ]
    ELSE LET table_data == ExtractTableData(table, cp)
             unique     == Dedup(table_data, seen, <<>>)
             marked     == MarkedRows(table)
         IN [ projects |-> unique.projects, seen |-> unique.seen,
              table_data |-> table_data,
              extracted |-> IF DOMAIN marked = {} THEN NotExtracted
                            ELSE [ raised |-> FALSE, rows |-> marked,
                                   records |-> SelectSeq(table_data,
                                       LAMBDA p : p.id[3] \in DOMAIN marked),
                                   dialogs |-> DialogsOf(table, 1),
                                   cells |-> << >> ] ]

Pairs(projects) == { << p.title, p.description >> : p \in SeqToSet(projects) }

NoIter == [ page |-> 0, new |-> 0, dropped |-> FALSE, navOk |-> FALSE,
            exit |-> "none" ]

\* return self.all_projects
ScrapeResultEmpty(projects) == <<>>
ScrapeResult(projects) == projects

NotScraped == [ done |-> FALSE, projects |-> <<>> ]
Scraped(projects) == [ done |-> TRUE, projects |-> ScrapeResult(projects) ]

\* --------------------------------------------------------------- browser
\* close_driver of ImprovedPaginationEcuadorScraper: quit, then forget the
\* driver unless quit raised.
CloseDriverBrowser(b, ref) == IF ref THEN "quit" ELSE b
CloseDriverRef(ref, quitRaises) == IF ref /\ ~quitRaises THEN FALSE ELSE ref

\* ----------------------------------------------------------- acquisition
\* re.sub(r'[^\w\s-]', '', title).strip(), then runs of "-" and blanks
\* become one "-", then the cut to 50 characters; on the titles of the model.
SafeTitle(title) ==
    CASE title = "c!"  -> "c"
      [] title = "a b" -> "a-b"
      [] OTHER         -> title

\* filename = f"{project_id}_{url_filename}" or f"{project_id}_{safe_title}.pdf"
FileName(url, project) ==
    IF url.base # "" /\ url.dot
    THEN << project.id, url.base >>
    ELSE << project.id, SafeTitle(project.title) \o ".pdf" >>

NoFiles == [ path \in {} |-> "empty" ]
WriteFile(fs, path, content) ==
    [ q \in DOMAIN fs \cup { path } |-> IF q = path THEN content ELSE fs[q] ]
Unlink(fs, path) == [ q \in DOMAIN fs \ { path } |-> fs[q] ]

\* if filepath.exists() and filepath.stat().st_size > 0
NeverDownloaded(fs, path) == FALSE
AlreadyDownloaded(fs, path) == path \in DOMAIN fs /\ fs[path] # "empty"

\* 'pdf' in content_type or pdf_url.lower().endswith('.pdf')
LooksLikePdf(ctype, url) == ctype = "pdf" \/ url.ends_pdf

\* What the server does during one download_pdf call.
ProbeFailures ==
    { [ head |-> h, ctype |-> "pdf", probeBody |-> "pdf", get |-> "ok",
        ctype2 |-> "pdf", body |-> "pdf" ] : h \in { "raise", "404" } }
    \cup { [ head |-> "200", ctype |-> "html", probeBody |-> b, get |-> "ok",
             ctype2 |-> "pdf", body |-> "pdf" ] : b \in { "pdf", "junk" } }
    \cup { [ head |-> "200", ctype |-> "pdf", probeBody |-> b, get |-> "ok",
             ctype2 |-> "pdf", body |-> "pdf" ] : b \in { "raise", "junk" } }
ProbePasses ==
    { [ head |-> "200", ctype |-> "pdf", probeBody |-> "pdf", get |-> "raise",
        ctype2 |-> "pdf", body |-> "pdf" ] }
    \cup { [ head |-> "200", ctype |-> "pdf", probeBody |-> "pdf", get |-> "ok",
             ctype2 |-> c, body |-> b ] :
               c \in { "pdf", "html" },
               b \in { "open_raises", "partial", "empty", "pdf", "junk" } }
ServerAnswers == ProbeFailures \cup ProbePasses

\* test_pdf_access: HEAD, the type check, then a GET of the first bytes.
TestPdfAccess(url, env) ==
    IF env.head # "200"
    THEN [ ok |-> FALSE, requests |-> << "HEAD" >> ]
    ELSE IF LooksLikePdf(env.ctype, url)
         THEN [ ok |-> env.probeBody = "pdf", requests |-> << "HEAD", "GET_PROBE" >> ]
         ELSE [ ok |-> FALSE, requests |-> << "HEAD" >> ]

\* The accessibility test of download_pdf: "if not is_accessible: return None".
ProbeIgnored(url, env) == [ ok |-> TRUE, requests |-> TestPdfAccess(url, env).requests ]
ProbeGate(url, env) == TestPdfAccess(url, env)

\* download_pdf after the payload was written: a zero-byte file is removed
\* and None returned; a file without the %PDF header is only flagged.
VerifyRejectsNonPdf(fs, path, body) ==
    IF body = "pdf"
    THEN [ result |-> << path >>, files |-> WriteFile(fs, path, body) ]
    ELSE [ result |-> <<>>, files |-> Unlink(WriteFile(fs, path, body), path) ]
VerifyDownloaded(fs, path, body) ==
    IF body = "empty"
    THEN [ result |-> <<>>, files |-> Unlink(WriteFile(fs, path, "empty"), path) ]
    ELSE [ result |-> << path >>, files |-> WriteFile(fs, path, body) ]

\* ImprovedPDFDownloader.download_pdf.  result is <<>> for None, <<path>>
\* for the file's path.
DlDownloadPdf(url, project, fs, env) ==
    LET path == FileName(url, project)
        t    == ProbeGate(url, env)
        sent == t.requests \o << "GET" >>
        none(f, r) == [ result |-> <<>>, files |-> f, requests |-> r,
                        probe |-> IF t.ok THEN "ok" ELSE "fail" ]
    IN IF AlreadyDownloaded(fs, path)
       THEN [ result |-> << path >>, files |-> fs, requests |-> <<>>,
              probe |-> "skipped" ]
       ELSE IF ~t.ok THEN none(fs, t.requests)
       ELSE IF env.get = "raise" THEN none(fs, sent)
       ELSE IF ~LooksLikePdf(env.ctype2, url) THEN none(fs, sent)
       ELSE CASE env.body = "open_raises" -> none(fs, sent)
              [] env.body = "partial" -> none(WriteFile(fs, path, "partial"), sent)
              [] OTHER -> [ result |-> VerifyDownloaded(fs, path, env.body).result,
                            files |-> VerifyDownloaded(fs, path, env.body).files,
                            requests |-> sent, probe |-> "ok" ]

\* What the server and the browser do during one download_pdf_for_project
\* call.  get: requests.get or raise_for_status raises a RequestException, or
\* answers; ctype: the content type; body: opening the file raises, the
\* stream breaks (a RequestException), or the payload (which may have no
\* bytes); page: what
\* download_pdf_with_selenium meets (driver.get raises, a PDF page whose
\* content the in-page fetch returns, a page with a working download link,
\* neither).
ImpAnswers ==
    { [ get |-> "raise", ctype |-> "pdf", body |-> "pdf", page |-> p ] :
        p \in { "get_raises", "pdf_xhr", "link", "nothing" } }
    \cup { [ get |-> "ok", ctype |-> c, body |-> b, page |-> "nothing" ] :
             c \in { "pdf", "html" }, b \in { "open_raises", "pdf", "junk" } }
    \cup { [ get |-> "ok", ctype |-> "pdf", body |-> "stream_raises", page |-> p ] :
             p \in { "pdf_xhr", "nothing" } }
    \cup { [ get |-> "ok", ctype |-> "pdf", body |-> "empty", page |-> "nothing" ] }

\* download_pdf_with_selenium.
DownloadPdfWithSelenium(url, path, fs, ref, env) ==
    IF ~ref THEN [ result |-> <<>>, files |-> fs, requests |-> <<>> ]
    ELSE CASE env.page = "get_raises" ->
                [ result |-> <<>>, files |-> fs, requests |-> << "NAV" >> ]
           [] env.page = "pdf_xhr" ->
                [ result |-> << path >>, files |-> WriteFile(fs, path, "pdf"),
                  requests |-> << "NAV", "XHR" >> ]
           [] env.page = "link" ->
                [ result |-> << path >>, files |-> WriteFile(fs, path, "data"),
                  requests |-> << "NAV", "GET_LINK" >> ]
           [] OTHER ->
                [ result |-> <<>>, files |-> fs, requests |-> << "NAV" >> ]

\* filename = f"{project_id}_{safe_title}.pdf" (the same substitutions as
\* SafeTitle, cut to 100 characters).
ImpFileName(project) == << project.id, SafeTitle(project.title) \o ".pdf" >>

\* download_pdf_for_project.  http tells how the streaming download ended,
\* fallback whether download_pdf_with_selenium was called.
DownloadPdfForProject(project, fs, ref, env) ==
    LET url  == project.document_url
        path == ImpFileName(project)
        sel(f) == DownloadPdfWithSelenium(url, path, f, ref, env)
        none(f, how) == [ result |-> <<>>, files |-> f, requests |-> << "GET" >>,
                          http |-> how, fallback |-> FALSE ]
        back(f, how) == [ result |-> sel(f).result, files |-> sel(f).files,
                          requests |-> << "GET" >> \o sel(f).requests,
                          http |-> how, fallback |-> TRUE ]
    IN IF url = NoUrl
       THEN [ result |-> <<>>, files |-> fs, requests |-> <<>>, http |-> "none",
              fallback |-> FALSE ]
       ELSE IF path \in DOMAIN fs
       THEN [ result |-> << path >>, files |-> fs, requests |-> <<>>,
              http |-> "none", fallback |-> FALSE ]
       ELSE IF env.get = "raise" THEN back(fs, "raise")
       ELSE IF env.ctype # "pdf" /\ ~url.ends_pdf THEN none(fs, "wrong_type")
       ELSE CASE env.body = "open_raises" -> none(fs, "open_raises")
              [] env.body = "stream_raises" ->
                    back(WriteFile(fs, path, "partial"), "stream_raises")
              [] OTHER ->
                    [ result |-> << path >>, files |-> WriteFile(fs, path, env.body),
                      requests |-> << "GET" >>, http |-> "ok", fallback |-> FALSE ]

\* Records handed to download_pdfs_from_data (read from law_projects.json);
\* pdf_file_path <<>>: the dict has no key 'pdf_file_path'.
DlProject(id, url, links) ==
    [ id |-> id, title |-> "c!", document_url |-> url, pdf_links |-> links,
      pdf_file_path |-> <<>> ]

DlProjectPool ==
    { DlProject("p1", Url_Doc, << Url_Doc >>),
      DlProject("p1", NoUrl, <<>>),
      DlProject("p2", NoUrl, << Url_View, Url_Doc >>),
      DlProject("p2", Url_Doc, <<>>),
      DlProject("p2", Url_View, << Url_Doc >>) }

DlInputs == UNION { [ 1..n -> DlProjectPool ] : n \in 0..MaxProjects }

\* Lists handed to a second call of download_pdfs_from_data on the same
\* object: the empty one, and one record without links.
DlSecondInputs == { <<>>, << DlProject("p2", NoUrl, <<>>) >> }

\* Directory contents left by an earlier run.
InitialFiles ==
    { NoFiles,
      WriteFile(NoFiles, << "p1", "doc.pdf" >>, "data"),
      WriteFile(NoFiles, << "p1", "doc.pdf" >>, "empty") }

\* The download directory of a ComprehensivePDFScraper run, as found.
\* The PDF directory before a run of the scraper over the listing with
\* document references.
ImpInitialFiles ==
    { NoFiles, [ path \in { << << 1, 1, 1 >>, "c.pdf" >> } |-> "empty" ] }

CompInitialFiles ==
    { NoFiles,
      WriteFile(NoFiles, << << 1, 1, 1 >>, "doc.pdf" >>, "data"),
      WriteFile(NoFiles, << << 1, 1, 1 >>, "doc.pdf" >>, "empty") }

\* download_stats['failed'] += 1 / stats['failed'] += 1 / pdfs_failed += 1
FailureNotCounted(n) == n
CountFailed(n) == n + 1

\* download_stats['skipped'] += 1 / stats['skipped'] += 1 / pdfs_skipped += 1
SkipNotCounted(n) == n
CountSkipped(n) == n + 1

\* ------------------------------------------------------------ the date form
\* The inputs the date selectors return, by the text placeholder + name + id
\* of each; the same input may be returned by several selectors.
DateInputPool == { "fecha_inicio", "fecha_fin", "fecha" }
DateInputLists == UNION { [ 1..n -> DateInputPool ] : n \in 0..MaxInputs }

\* any(keyword in text for keyword in ['inicio', 'start', 'desde', ...])
IsStart(input) == input = "fecha_inicio"
\* any(keyword in text for keyword in ['fin', 'end', 'hasta', ...])
IsEnd(input) == input = "fecha_fin"

\* The branch of the if / elif chain an element takes: which date is typed.
TypedInto(input, start_date_filled, end_date_filled) ==
    IF IsStart(input) /\ ~start_date_filled THEN "start_date"
    ELSE IF IsEnd(input) /\ ~end_date_filled THEN "end_date"
    ELSE IF ~start_date_filled /\ ~end_date_filled THEN "start_date"
    ELSE IF ~end_date_filled THEN "end_date"
    ELSE "nothing"

\* The loops over the selectors and their elements.
RECURSIVE FillDates(_, _, _)
FillDates(inputs, start_date_filled, end_date_filled) ==
    IF inputs = <<>> THEN <<>>
    ELSE LET typed == TypedInto(inputs[1], start_date_filled, end_date_filled)
         IN << typed >> \o FillDates(Tail(inputs),
                                     start_date_filled \/ typed = "start_date",
                                     end_date_filled \/ typed = "end_date")

NoForm == [ called |-> FALSE, inputs |-> <<>>, typed |-> <<>>, result |-> FALSE ]

\* find_and_fill_date_inputs: start_date_filled or end_date_filled.
FindAndFillDateInputs(inputs) ==
    LET typed == FillDates(inputs, FALSE, FALSE)
    IN [ called |-> TRUE, inputs |-> inputs, typed |-> typed,
         result |-> \E k \in 1..Len(typed) : typed[k] # "nothing" ]

\* ------------------------------------------------------------- the CSV file
\* Keys of a record of extract_project_from_row; scrape_all_pages adds
\* 'pdf_file_path' to a record whose document was downloaded.
CompBaseFields ==
    { "id", "title", "description", "status", "date_created", "date_modified",
      "author", "committee", "document_url", "pdf_links", "scraped_at" }

CompKeys(project) ==
    CompBaseFields \cup (IF project.pdf_file_path # <<>> THEN { "pdf_file_path" }
                         ELSE {})

\* Keys of a record of extraer_datos_de_fila; main adds 'pdf_disponible', and
\* 'pdf_url' when a URL was found.
EcuBaseFields ==
    { "id", "fecha", "titulo", "estado", "autor", "tramite", "docs_columna",
      "datos_completos", "extraido_en", "pdf_disponible" }

EcuKeys(proyecto) ==
    EcuBaseFields \cup (IF proyecto.pdf_url # <<>> THEN { "pdf_url" } ELSE {})

NoCsv == [ written |-> FALSE, header |-> {}, rows |-> 0 ]

\* csv.DictWriter.writerows: a record with a key outside fieldnames raises
\* ValueError; the rows before it are in the file.
RECURSIVE WriteRows(_, _)
WriteRows(fieldnames, keys) ==
    IF keys = <<>> THEN 0
    ELSE IF keys[1] \subseteq fieldnames
         THEN 1 + WriteRows(fieldnames, Tail(keys))
         ELSE 0

\* save_results, the CSV part: fieldnames are the keys of the first record.
SaveResultsCsv(projects) ==
    LET keys == [ k \in 1..Len(projects) |-> CompKeys(projects[k]) ]
    IN IF projects = <<>> THEN [ written |-> TRUE, header |-> {}, rows |-> 0 ]
       ELSE [ written |-> TRUE, header |-> keys[1],
              rows |-> WriteRows(keys[1], keys) ]

\* guardar_resultados, the CSV part: fieldnames are the keys of all records.
GuardarCsv(proyectos) ==
    LET keys   == [ k \in 1..Len(proyectos) |-> EcuKeys(proyectos[k]) ]
        campos == UNION { keys[k] : k \in 1..Len(proyectos) }
    IN IF proyectos = <<>> THEN NoCsv
       ELSE [ written |-> TRUE, header |-> campos,
              rows |-> WriteRows(campos, keys) ]

\* The download loop.  before: the records as the stage received them;
\* second: the call is a second one on the same ImprovedPDFDownloader.
NoDl  == [ projects |-> <<>>, before |-> <<>>, second |-> FALSE,
           session |-> "none",
           i |-> 0, u |-> 0, links |-> <<>>,
           downloaded |-> 0, failed |-> 0, skipped |-> 0, total |-> 0,
           probeFailed |-> FALSE, last |-> "none", got |-> {} ]
NoAcq == [ called |-> FALSE, url |-> NoUrl, id |-> "", path |-> <<>>,
           existed |-> FALSE, again |-> FALSE, final |-> FALSE,
           head |-> "none", streamed |-> "none", http |-> "none",
           fallback |-> FALSE, filesBefore |-> NoFiles,
           probe |-> "none", result |-> <<>> ]

\* scrape_all_pages has extracted no page and asked for no navigation.
NoCalls == [ extract |-> 0, navigate |-> 0 ]

Init ==
    /\ entry \in { "improved", "comprehensive", "ecuador", "downloader" }
    /\ site \in IF entry = "improved" THEN SiteProfiles ELSE { PlainSite }
    /\ pc = "start"
    /\ browser = "none"
    /\ driverRef = FALSE
    /\ boot = "none"
    /\ interrupted = FALSE
    /\ max_pages \in IF entry = "improved" /\ site.name = "texts" THEN { 1 }
                     ELSE IF entry = "improved" /\ site.name \notin { "links", "wrap" }
                     THEN 0..MaxPagesArg
                     ELSE IF entry = "comprehensive" THEN { 0, 1 } ELSE { 0 }
    /\ current_page = 1
    /\ indicator \in IF entry = "improved" THEN site.inds ELSE { <<>> }
    /\ total_pages = 0
    /\ page_num = 0
    /\ page_info = NoPageInfo
    /\ all_projects = <<>>
    /\ seen_project_ids = {}
    /\ offered = {}
    /\ extracted = NotExtracted
    /\ nav = NoNav
    /\ iter = NoIter
    /\ scraped = NotScraped
    /\ ret = "none"
    /\ summary = "none"
    /\ csv = NoCsv
    /\ location = "none"
    /\ form = NoForm
    /\ calls = NoCalls
    /\ files \in IF entry = "downloader" THEN InitialFiles
                ELSE IF entry = "improved" /\ site.name = "links" THEN ImpInitialFiles
                ELSE IF entry = "comprehensive" THEN CompInitialFiles
                ELSE { NoFiles }
    /\ requests = <<>>
    /\ \E input \in IF entry = "downloader" THEN DlInputs ELSE { <<>> } :
          dl = [ NoDl EXCEPT !.projects = input, !.before = input ]
    /\ acq = NoAcq

\* The process ends without returning from the run: what it held in memory
\* is gone; the browser (another process) and the files stay as they are.
ProcessGone ==
    /\ current_page' = 1
    /\ indicator' = <<>>
    /\ total_pages' = 0
    /\ page_num' = 0
    /\ page_info' = NoPageInfo
    /\ boot' = "none"
    /\ all_projects' = <<>>
    /\ seen_project_ids' = {}
    /\ offered' = {}
    /\ extracted' = NotExtracted
    /\ nav' = NoNav
    /\ iter' = NoIter
    /\ scraped' = NotScraped
    /\ calls' = NoCalls

\* ------------------------------------------- ImprovedPaginationEcuadorScraper
\* start_scraping returns None after closing the driver.
ImpAbort(quitRaises) ==
    /\ browser' = CloseDriverBrowser(browser, driverRef)
    /\ driverRef' = CloseDriverRef(driverRef, quitRaises)
    /\ pc' = "returned"
    /\ ret' = "None"
    /\ UNCHANGED << summary, csv, location, form, calls >>

\* setup_driver: webdriver.Chrome may raise; set_window_size may raise after
\* the browser was launched; both make start_scraping return None at once.
ImpSetupDriver ==
    /\ entry = "improved" /\ pc = "start"
    /\ \E outcome \in { "launch_raises", "resize_raises", "ok" } :
        /\ browser' = IF outcome = "launch_raises" THEN "none" ELSE "running"
        /\ driverRef' = (outcome # "launch_raises")
        /\ pc' = IF outcome = "ok" THEN "iframe" ELSE "returned"
        /\ ret' = IF outcome = "ok" THEN ret ELSE "None"
        /\ UNCHANGED << summary, csv, location, form, calls >>
    /\ UNCHANGED << entry, site, interrupted, max_pages, pageVars, dataVars,
                    nav, iter, scraped, dlVars >>

\* navigate_to_iframe: driver.get, then the bounded wait for body; any
\* exception, the wait's timeout included, gives False.
ImpNavigateToIframe ==
    /\ entry = "improved" /\ pc = "iframe"
    /\ \E outcome \in { "get_raises", "wait_timeout", "ok" }, quitRaises \in BOOLEAN :
        /\ boot' = outcome
        /\ IF outcome = "ok"
           THEN /\ pc' = "form"
                /\ UNCHANGED << runVars, ret, summary, csv, location, form, calls >>
           ELSE ImpAbort(quitRaises)
    /\ UNCHANGED << entry, site, interrupted, max_pages, current_page, indicator,
                    total_pages, page_num, page_info, dataVars, nav, iter,
                    scraped, dlVars >>

\* find_and_fill_date_inputs: best effort, its result is only logged.
ImpFillDates ==
    /\ entry = "improved" /\ pc = "form"
    /\ pc' = "submit"
    /\ boot' = "passed"
    /\ \E inputs \in DateInputLists : form' = FindAndFillDateInputs(inputs)
    /\ UNCHANGED << entry, site, runVars, interrupted, max_pages, current_page,
                    indicator, total_pages, page_num, page_info, dataVars, nav,
                    iter, scraped, ret, summary, csv, location, calls, dlVars >>

\* find_and_click_submit_button: best effort, its result is only logged.
\* The listing is then on display.
ImpSubmitSearch ==
    /\ entry = "improved" /\ pc = "submit"
    /\ pc' = "scrape"
    /\ form' = NoForm
    /\ UNCHANGED boot
    /\ IF site.name = "texts"
       THEN \E text \in PageTexts :
               /\ indicator' = IndicatorOf(text)
               /\ page_info' = [ NoPageInfo EXCEPT !.text = text ]
       ELSE /\ \E text \in site.inds : indicator' = text
            /\ UNCHANGED page_info
    /\ UNCHANGED << entry, site, runVars, interrupted, max_pages, current_page,
                    total_pages, page_num, dataVars, nav, iter, scraped, ret,
                    summary, csv, location, calls, dlVars >>

\* scrape_all_pages up to the loop: pagination info, the cap, the first page.
\* (The default total is followed only in capped runs, to bound the model.)
ImpScrapeFirstPage ==
    /\ entry = "improved" /\ pc = "scrape"
    /\ indicator = <<>> => max_pages # 0
    /\ \E announced \in site.totals,
          raises \in IF site.name = "texts" THEN BOOLEAN ELSE { FALSE } :
        LET info  == IF site.name = "texts"
                     THEN GetTotalRecordsAndPages(page_info.text, raises)
                     ELSE PaginationInfo(
                              GetTotalPages(indicator, announced) * ItemsPerPage,
                              GetTotalPages(indicator, announced),
                              GetFirstPage(indicator))
            total == CapPages(info.total_pages, max_pages)
            cp    == info.current_page
        IN \E r \in { ExtractCurrentPageData(table, cp, seen_project_ids,
                                              shotRaises) :
                         table \in Tables(site), shotRaises \in site.raises } :
           /\ total_pages' = total
           /\ current_page' = cp
           /\ page_info' = IF site.name = "texts"
                           THEN [ page_info EXCEPT !.called = TRUE,
                                                   !.raised = raises,
                                                   !.result = info ]
                           ELSE page_info
           /\ all_projects' = all_projects \o r.projects
           /\ seen_project_ids' = r.seen
           /\ offered' = offered \cup Pairs(r.table_data)
           /\ extracted' = r.extracted
           /\ page_num' = 2
           /\ calls' = [ calls EXCEPT !.extract = @ + 1 ]
           /\ iter' = [ page |-> 1, new |-> Len(r.projects),
                        dropped |-> Len(r.table_data) > Len(r.projects),
                        navOk |-> TRUE,
                        exit |-> IF 2 <= total THEN "continue" ELSE "exhausted" ]
           /\ pc' = IF 2 <= total THEN "loop" ELSE "post"
           /\ scraped' = IF 2 <= total THEN scraped
                         ELSE Scraped(all_projects \o r.projects)
    /\ UNCHANGED << entry, site, runVars, boot, interrupted, max_pages,
                    indicator, nav, ret, summary, csv, location, form, dlVars >>

\* navigate_to_next_page, its head: the indicator is read and the controls
\* are looked up (a control counts when the code would use it: a next button
\* found and enabled, a page input found, a link whose text is the target).
ImpNavBegin ==
    /\ entry = "improved" /\ pc = "loop"
    /\ \E avail \in site.controls :
        nav' = [ called |-> TRUE,
                 pre |-> GetCurrentPageNumber(indicator, current_page),
                 cpBefore |-> current_page, avail |-> avail, k |-> 1,
                 tried |-> <<>>, raised |-> FALSE,
                 reread |-> GetCurrentPageNumber(indicator, current_page),
                 done |-> FALSE, result |-> FALSE ]
    /\ pc' = "nav"
    /\ calls' = [ calls EXCEPT !.navigate = @ + 1 ]
    /\ UNCHANGED << entry, site, runVars, interrupted, max_pages, pageVars,
                    dataVars, iter, scraped, ret, summary, csv, location, form, dlVars >>

\* navigate_to_next_page returns False: the loop breaks.
NavFails(n) ==
    /\ nav' = n
    /\ pc' = "post"
    /\ iter' = [ page |-> page_num, new |-> 0, dropped |-> FALSE, navOk |-> FALSE,
                 exit |-> "navfail" ]
    /\ scraped' = Scraped(all_projects)

\* navigate_to_next_page, one strategy: the attempt, the re-read of the
\* indicator, the verification; on failure the next strategy follows.
ImpNavTry ==
    /\ entry = "improved" /\ pc = "nav"
    /\ LET j == NextStrategy(nav.k, nav.avail) IN
        IF j = 0
        THEN /\ NavFails([ nav EXCEPT !.done = TRUE ])
             /\ UNCHANGED << current_page, indicator >>
        ELSE \E out \in Outcomes(site, indicator) :
            LET new   == GetCurrentPageNumber(out.ind, current_page)
                tried == Append(nav.tried, Strategies[j])
            IN IF out.raise
               THEN /\ UNCHANGED << current_page, indicator >>
                    /\ IF j = 4
                       THEN NavFails([ nav EXCEPT !.tried = tried, !.raised = TRUE,
                                               !.k = 5, !.done = TRUE ])
                       ELSE /\ nav' = [ nav EXCEPT !.tried = tried, !.raised = TRUE,
                                                   !.k = j + 1 ]
                            /\ UNCHANGED << pc, iter, scraped >>
               ELSE /\ indicator' = out.ind
                    /\ IF Verified(new, nav.pre)
                       THEN /\ current_page' = new
                            /\ nav' = [ nav EXCEPT !.tried = tried, !.reread = new,
                                          !.k = j + 1, !.done = TRUE, !.result = TRUE ]
                            /\ pc' = "extract"
                            /\ UNCHANGED << iter, scraped >>
                       ELSE /\ UNCHANGED current_page
                            /\ IF j = 4
                               THEN NavFails([ nav EXCEPT !.tried = tried, !.reread = new,
                                                 !.k = 5, !.done = TRUE ])
                               ELSE /\ nav' = [ nav EXCEPT !.tried = tried,
                                                  !.reread = new, !.k = j + 1 ]
                                    /\ UNCHANGED << pc, iter, scraped >>
    /\ UNCHANGED << entry, site, page_info, boot, runVars, interrupted, max_pages, total_pages,
                    page_num, dataVars, ret, summary, csv, location, form, calls, dlVars >>

\* The rest of a loop iteration: the page's data, then the safety check.
ImpExtractPage ==
    /\ entry = "improved" /\ pc = "extract"
    /\ \E r \in { ExtractCurrentPageData(table, current_page, seen_project_ids,
                                           shotRaises) :
                    table \in Tables(site), shotRaises \in site.raises } :
        LET exit == IF SafetyStop(page_num, Len(r.projects)) THEN "valve"
                    ELSE IF page_num = total_pages THEN "exhausted" ELSE "continue"
        IN /\ all_projects' = all_projects \o r.projects
           /\ seen_project_ids' = r.seen
           /\ offered' = offered \cup Pairs(r.table_data)
           /\ extracted' = r.extracted
           /\ calls' = [ calls EXCEPT !.extract = @ + 1 ]
           /\ iter' = [ page |-> page_num, new |-> Len(r.projects),
                        dropped |-> Len(r.table_data) > Len(r.projects),
                        navOk |-> TRUE,
                        exit |-> exit ]
           /\ page_num' = IF exit = "continue" THEN page_num + 1 ELSE page_num
           /\ pc' = IF exit = "continue" THEN "loop" ELSE "post"
           /\ scraped' = IF exit = "continue" THEN scraped
                         ELSE Scraped(all_projects \o r.projects)
    /\ UNCHANGED << entry, site, page_info, boot, runVars, interrupted, max_pages, current_page,
                    indicator, total_pages, nav, ret, summary, csv, location, form, dlVars >>

\* start_scraping calls download_pdfs_for_projects(all_projects): the
\* counters start at zero.  dl.projects is the list all_projects itself.
\* When no record has a document_url the loop only counts skips, and is
\* taken in this one step.
ImpBeginDownloads ==
    /\ entry = "improved" /\ pc = "post" /\ scraped.projects # <<>>
    /\ pc' = "download"
    /\ dl' = IF \A i \in 1..Len(scraped.projects) :
                   scraped.projects[i].document_url = NoUrl
             THEN [ NoDl EXCEPT !.projects = scraped.projects,
                                !.before = scraped.projects,
                                !.i = Len(scraped.projects) + 1,
                                !.skipped = Len(scraped.projects),
                                !.last = "skipped",
                                !.total = Len(scraped.projects) ]
             ELSE [ NoDl EXCEPT !.projects = scraped.projects,
                                !.before = scraped.projects, !.i = 1,
                                !.total = Len(scraped.projects) ]
    /\ UNCHANGED << entry, site, runVars, interrupted, max_pages, pageVars,
                    dataVars, nav, iter, scraped, ret, summary, csv, location, form, calls, files, requests, acq >>

\* One iteration of the loop of download_pdfs_for_projects.
ImpDownloadNext ==
    /\ entry = "improved" /\ pc = "download" /\ dl.i <= Len(dl.projects)
    /\ LET project == dl.projects[dl.i]
       IN IF project.document_url = NoUrl
          THEN /\ dl' = [ dl EXCEPT !.skipped = CountSkipped(@), !.i = @ + 1,
                                    !.last = "skipped" ]
               /\ UNCHANGED << files, requests, acq >>
          ELSE \E env \in ImpAnswers :
                LET r == DownloadPdfForProject(project, files, driverRef, env)
                IN /\ files' = r.files
                   /\ requests' = r.requests
                   /\ acq' = [ NoAcq EXCEPT !.called = TRUE,
                                            !.url = project.document_url,
                                            !.id = project.id,
                                            !.path = ImpFileName(project),
                                            !.existed = (ImpFileName(project) \in DOMAIN files),
                                            !.final = TRUE,
                                            !.http = r.http,
                                            !.fallback = r.fallback,
                                            !.filesBefore = files,
                                            !.result = r.result ]
                   /\ IF r.result # <<>>
                      THEN dl' = [ dl EXCEPT !.projects[dl.i].pdf_file_path = r.result,
                                            !.downloaded = @ + 1, !.i = @ + 1,
                                            !.last = "downloaded" ]
                      ELSE dl' = [ dl EXCEPT !.failed = CountFailed(@), !.i = @ + 1,
                                            !.last = "failed" ]
    /\ UNCHANGED << entry, site, pc, runVars, interrupted, max_pages, pageVars,
                    dataVars, nav, iter, scraped, ret, summary, csv, location, form, calls >>

\* start_scraping after scrape_all_pages returned self.all_projects: nothing
\* found, or after the downloads the processing and export (which may
\* raise), then close_driver.
ImpFinish ==
    /\ entry = "improved"
    /\ \/ pc = "post" /\ scraped.projects = <<>>
       \/ pc = "download" /\ dl.i > Len(dl.projects)
    /\ \E exportRaises \in BOOLEAN, quitRaises \in BOOLEAN :
        /\ browser' = CloseDriverBrowser(browser, driverRef)
        /\ driverRef' = CloseDriverRef(driverRef, quitRaises)
        /\ pc' = "returned"
        /\ ret' = IF scraped.projects = <<>> \/ exportRaises THEN "None" ELSE "data"
        /\ summary' = IF scraped.projects = <<>> \/ exportRaises
                      THEN summary ELSE "saved"
        /\ UNCHANGED << csv, location, form, calls >>
    /\ UNCHANGED << entry, site, interrupted, max_pages, pageVars, dataVars,
                    nav, iter, scraped, dlVars >>

\* main of improved_pagination_scraper: KeyboardInterrupt is not an Exception,
\* so it leaves start_scraping and is logged by main.
ImpInterrupt ==
    /\ entry = "improved"
    /\ pc \in { "iframe", "form", "submit", "scrape", "loop", "nav", "extract", "post",
                 "download" }
    /\ interrupted' = TRUE
    /\ pc' = "ended"
    /\ ProcessGone
    /\ dl' = NoDl
    /\ UNCHANGED << entry, site, runVars, max_pages, ret, summary, csv, location, form, files, requests, acq >>

\* ------------------------------------------------------ ImprovedPDFDownloader
scraperVars == << browser, driverRef, interrupted, max_pages, pageVars, dataVars,
                  nav, iter, scraped, ret, summary, csv, form, calls >>

\* download_pdfs_from_data up to the loop: setup_session, then the total.
DlSetupSession ==
    /\ entry = "downloader" /\ pc = "start"
    /\ \E ok \in BOOLEAN :
        IF ok
        THEN /\ dl' = [ dl EXCEPT !.total = Len(dl.projects), !.i = 1,
                                  !.session = "ok" ]
             /\ pc' = "dl_project"
        ELSE /\ pc' = "ended"
             /\ dl' = [ dl EXCEPT !.session = "failed" ]
    /\ UNCHANGED << entry, site, scraperVars, location, files, requests, acq >>

\* The URLs of a record with document_url put behind its pdf_links.
DlCandidatesLinksFirst(project) ==
    IF project.document_url # NoUrl
    THEN project.pdf_links \o << project.document_url >>
    ELSE project.pdf_links

\* pdf_links.insert(0, document_url) when the record has a document_url:
\* the URLs of a record in the order the loop tries them.
DlCandidates(project) ==
    IF project.document_url # NoUrl
    THEN << project.document_url >> \o project.pdf_links
    ELSE project.pdf_links

\* One pass of the loop up to the URL loop: document_url is inserted in
\* front of the record's own pdf_links list; no link at all is a skip.
DlBeginProject ==
    /\ entry = "downloader" /\ pc = "dl_project" /\ dl.i <= Len(dl.projects)
    /\ LET project == dl.projects[dl.i]
           links   == DlCandidates(project)
       IN IF links = <<>>
          THEN /\ dl' = [ dl EXCEPT !.skipped = CountSkipped(@), !.i = @ + 1,
                                    !.last = "skipped", !.probeFailed = FALSE ]
               /\ UNCHANGED pc
          ELSE /\ dl' = [ dl EXCEPT !.projects[dl.i].pdf_links = links,
                                    !.links = links, !.u = 1,
                                    !.probeFailed = FALSE, !.last = "none" ]
               /\ pc' = "dl_url"
    /\ UNCHANGED << entry, site, scraperVars, location, files, requests, acq >>

\* The URL loop: download_pdf for the next link; the first path returned
\* ends the record as downloaded, the end of the list as failed.
DlTryUrl ==
    /\ entry = "downloader" /\ pc = "dl_url"
    /\ \E env \in ServerAnswers :
        LET project == dl.projects[dl.i]
            url     == dl.links[dl.u]
            r       == DlDownloadPdf(url, project, files, env)
            path    == FileName(url, project)
            failedP == dl.probeFailed
                       \/ (r.probe # "skipped" /\ ~TestPdfAccess(url, env).ok)
        IN /\ files' = r.files
           /\ requests' = r.requests
           /\ acq' = [ called |-> TRUE, url |-> url, id |-> project.id,
                       path |-> path,
                       existed |-> ( /\ path \in DOMAIN files
                                     /\ files[path] \in { "data", "pdf", "junk", "partial" } ),
                       again |-> << project.id, url >> \in dl.got,
                       final |-> (dl.u = Len(dl.links)),
                       head |-> IF r.probe # "skipped" /\ env.head = "200"
                                THEN env.ctype ELSE "none",
                       streamed |-> IF /\ "GET" \in SeqToSet(r.requests)
                                       /\ env.get = "ok"
                                       /\ LooksLikePdf(env.ctype2, url)
                                       /\ env.body \in { "empty", "pdf", "junk" }
                                    THEN env.body ELSE "none",
                       http |-> "none", fallback |-> FALSE,
                       filesBefore |-> files,
                       probe |-> IF r.probe = "skipped" THEN "skipped"
                                 ELSE IF TestPdfAccess(url, env).ok THEN "ok"
                                 ELSE "fail",
                       result |-> r.result ]
           /\ IF r.result # <<>>
              THEN /\ dl' = [ dl EXCEPT !.projects[dl.i].pdf_file_path = r.result,
                                        !.downloaded = @ + 1, !.i = @ + 1,
                                        !.last = "downloaded",
                                        !.probeFailed = failedP,
                                        !.got = @ \cup { << project.id, url >> } ]
                   /\ pc' = "dl_project"
              ELSE IF dl.u = Len(dl.links)
              THEN /\ dl' = [ dl EXCEPT !.failed = CountFailed(@), !.i = @ + 1,
                                        !.last = "failed", !.probeFailed = failedP ]
                   /\ pc' = "dl_project"
              ELSE /\ dl' = [ dl EXCEPT !.u = @ + 1, !.probeFailed = failedP ]
                   /\ UNCHANGED pc
    /\ UNCHANGED << entry, site, scraperVars, location >>

\* The loop is over: the counters are returned.
DlReturn ==
    /\ entry = "downloader" /\ pc = "dl_project" /\ dl.i > Len(dl.projects)
    /\ pc' = "ended"
    /\ UNCHANGED << entry, site, scraperVars, location, dlVars >>

\* download_pdfs_from_data is called once more on the same object, up to the
\* loop: setup_session, then the total; self.stats is the dict __init__
\* made.
DlInvokeAgain ==
    /\ entry = "downloader" /\ pc = "ended" /\ ~dl.second
    /\ \E input \in DlSecondInputs, ok \in BOOLEAN :
        IF ok
        THEN /\ dl' = [ dl EXCEPT !.second = TRUE, !.projects = input,
                                  !.before = input, !.total = Len(input),
                                  !.i = 1, !.session = "ok" ]
             /\ pc' = "dl_project"
        ELSE /\ dl' = [ dl EXCEPT !.second = TRUE, !.projects = input,
                                  !.before = input, !.session = "failed" ]
             /\ UNCHANGED pc
    /\ UNCHANGED << entry, site, scraperVars, location, files, requests, acq >>

\* ----------------------------------------------------- ComprehensivePDFScraper
\* A row as extract_table_data sees it: its td cells and its "Ver
\* Documentos" buttons with what the browser does when each is used.
CompRowPool ==
    { [ cells |-> << "c!", "", "s", "x" >>,
        buttons |-> << DialogButton("dialog", << Url_Doc >>, "clicked") >> ],
      [ cells |-> << "c!", "", "s", "x" >>, buttons |-> <<>> ],
      [ cells |-> << "c!", "" >>, buttons |-> <<>> ] }

\* The rows with one button, in every way the button can go.
CompDialogRows ==
    { [ cells |-> << "c!", "", "s", "x" >>, buttons |-> << b >> ] :
        b \in { DialogButton("raises", <<>>, "none"),
                DialogButton("no_dialog", <<>>, "none") }
              \cup { DialogButton("dialog", links, close) :
                       links \in { <<>>, << Url_Doc >> },
                       close \in { "clicked", "none_displayed", "escape_raises" } } }

\* The tables of a page: any rows of the pool, or one row with a button.
CompTables ==
    UNION { [ 1..n -> CompRowPool ] : n \in 0..CompMaxRows }
    \cup { << r >> : r \in CompDialogRows }

\* extract_project_from_row, the loop over the "Ver Documentos" buttons: a
\* click that raises and a dialog that is not found go on with the next
\* button; the links of a dialog are assigned to pdf_links, the dialog is
\* closed (an escape key that raises goes on with the next button), and
\* only then document_url is set and the loop left.
RECURSIVE CompButtons(_, _)
CompButtons(found, buttons) ==
    IF buttons = <<>> THEN found
    ELSE LET b == buttons[1]
         IN IF b.click # "dialog" THEN CompButtons(found, Tail(buttons))
            ELSE IF b.close = "escape_raises"
            THEN CompButtons([ found EXCEPT !.pdf_links = b.links ], Tail(buttons))
            ELSE IF b.links # <<>>
            THEN [ pdf_links |-> b.links, document_url |-> b.links[1] ]
            ELSE CompButtons([ found EXCEPT !.pdf_links = b.links ], Tail(buttons))

\* extract_project_from_row
CompProject(row, cp, j) ==
    LET found == CompButtons([ pdf_links |-> <<>>, document_url |-> NoUrl ],
                             row.buttons)
    IN [ id |-> << cp, 1, j >>, title |-> row.cells[1],
         description |-> row.cells[2],
         status |-> Cell(row.cells, 3), date_created |-> "",
         author |-> Cell(row.cells, 4), committee |-> Cell(row.cells, 5),
         document_url |-> found.document_url,
         pdf_links |-> found.pdf_links, pdf_file_path |-> <<>> ]

\* extract_table_data: every row with at least 4 td cells gives a record.
RECURSIVE CompExtractRows(_, _, _)
CompExtractRows(table, cp, j) ==
    IF j > Len(table) THEN <<>>
    ELSE IF Len(table[j].cells) >= 4
         THEN << CompProject(table[j], cp, j) >> \o CompExtractRows(table, cp, j + 1)
         ELSE CompExtractRows(table, cp, j + 1)

\* The td texts of the rows that gave a record, by row number.
CompAccepted(table) ==
    [ j \in { k \in 1..Len(table) : Len(table[k].cells) >= 4 } |-> table[j].cells ]

\* What the browser and the site do during one download_pdf call.
CompAnswers ==
    { [ nav |-> n, xhr |-> "none" ] : n \in { "raise", "login" } }
    \cup { [ nav |-> "ok", xhr |-> x ] : x \in { "raise", "pdf", "html" } }

\* The files of the directory whose name starts with the record's id, and
\* the most recent of them (a record has at most one file in these runs).
Globbed(fs, id) == { q \in DOMAIN fs : q[1] = id }
LatestFile(fs, id) == CHOOSE q \in Globbed(fs, id) : TRUE

\* "login" in current_url.lower() or "autenticacion" in page_source.lower()
AuthWallIgnored(env) == FALSE
AuthWall(env) == env.nav = "login"

\* ComprehensivePDFScraper.download_pdf.  "BUTTONS": the download buttons
\* were looked up and the first that takes the click was clicked.
CompDownloadPdf(url, project, fs, ref, env) ==
    LET path == FileName(url, project)
        none(f, r) == [ result |-> <<>>, files |-> f, requests |-> r, probe |-> "none" ]
        \* after the visit: an empty latest file of the record is removed
        fs2  == IF Globbed(fs, project.id) # {}
                THEN Unlink(fs, LatestFile(fs, project.id)) ELSE fs
    IN IF AlreadyDownloaded(fs, path)
       THEN [ result |-> << path >>, files |-> fs, requests |-> <<>>,
              probe |-> "skipped" ]
       ELSE IF ~ref THEN none(fs, <<>>)
       ELSE IF env.nav = "raise" THEN none(fs, << "BROWSER_GET" >>)
       ELSE IF AuthWall(env) THEN none(fs, << "BROWSER_GET" >>)
       ELSE IF /\ Globbed(fs, project.id) # {}
               /\ fs[LatestFile(fs, project.id)] # "empty"
       THEN [ result |-> << LatestFile(fs, project.id) >>,
              files |-> fs, requests |-> << "BROWSER_GET", "BUTTONS" >>,
              probe |-> "none" ]
       ELSE IF env.xhr = "pdf"
       THEN [ result |-> << path >>, files |-> WriteFile(fs2, path, "data"),
              requests |-> << "BROWSER_GET", "BUTTONS", "XHR" >>, probe |-> "none" ]
       ELSE none(fs2, << "BROWSER_GET", "BUTTONS", "XHR" >>)

\* close_driver of ComprehensivePDFScraper: quit when a driver is set.
CompCloseDriver(b, ref) == IF ref THEN "quit" ELSE b

\* start_scraping returns [] after closing the driver.
CompAbort ==
    /\ browser' = CompCloseDriver(browser, driverRef)
    /\ pc' = "returned"
    /\ ret' = "empty"
    /\ UNCHANGED << summary, csv, location, form, calls >>
    /\ UNCHANGED driverRef

\* setup_driver: webdriver.Chrome may raise; implicitly_wait may raise after
\* the browser was launched; both make start_scraping return [] at once.
CompSetupDriver ==
    /\ entry = "comprehensive" /\ pc = "start"
    /\ \E outcome \in { "launch_raises", "wait_raises", "ok" } :
        /\ browser' = IF outcome = "launch_raises" THEN "none" ELSE "running"
        /\ driverRef' = (outcome # "launch_raises")
        /\ pc' = IF outcome = "ok" THEN "iframe" ELSE "returned"
        /\ ret' = IF outcome = "ok" THEN ret ELSE "empty"
        /\ UNCHANGED << summary, csv, location, form, calls >>
    /\ UNCHANGED << entry, site, interrupted, max_pages, pageVars, dataVars,
                    nav, iter, scraped, dlVars >>

\* navigate_to_iframe: a timeout of the wait for body still gives True.
CompNavigateToIframe ==
    /\ entry = "comprehensive" /\ pc = "iframe"
    /\ \E outcome \in { "get_raises", "wait_timeout", "ok" } :
        /\ boot' = outcome
        /\ IF outcome = "get_raises"
           THEN CompAbort
           ELSE /\ pc' = "form"
                /\ UNCHANGED << runVars, ret, summary, csv, location, form, calls >>
    /\ UNCHANGED << entry, site, interrupted, max_pages, current_page, indicator,
                    total_pages, page_num, page_info, dataVars, nav, iter,
                    scraped, dlVars >>

\* find_and_fill_date_inputs; its result is not looked at.
CompFillDates ==
    /\ entry = "comprehensive" /\ pc = "form"
    /\ pc' = "submit"
    /\ boot' = "passed"
    /\ \E inputs \in DateInputLists : form' = FindAndFillDateInputs(inputs)
    /\ UNCHANGED << entry, site, runVars, interrupted, max_pages, current_page,
                    indicator, total_pages, page_num, page_info, dataVars, nav,
                    iter, scraped, ret, summary, csv, location, calls, dlVars >>

\* find_and_click_submit_button; an exception that escapes one of the two
\* steps is caught by start_scraping.  After the submit the listing shows
\* its first page.
CompSubmitSearch ==
    /\ entry = "comprehensive" /\ pc = "submit"
    /\ \E raises \in BOOLEAN :
        IF raises
        THEN /\ CompAbort
             /\ UNCHANGED indicator
        ELSE /\ pc' = "scrape"
             /\ indicator' = << 1 >>
             /\ location' = "listing"
             /\ form' = NoForm
             /\ UNCHANGED << runVars, ret, summary, csv, calls >>
    /\ UNCHANGED << entry, site, interrupted, max_pages, current_page,
                    total_pages, page_num, page_info, boot, dataVars, nav, iter,
                    scraped, dlVars >>

\* The loop of scrape_all_pages is over: return all_projects.
CompLoopEnd(projects) ==
    /\ pc' = "post"
    /\ scraped' = [ done |-> TRUE, projects |-> projects ]

\* scrape_all_pages up to the loop: the page info (0 pages when nothing is
\* found), the cap, current_page = 1.
CompScrapeStart ==
    /\ entry = "comprehensive" /\ pc = "scrape"
    /\ \E announced \in 0..CompMaxTotal :
        LET total == CapPages(announced, max_pages)
        IN /\ total_pages' = total
           /\ current_page' = 1
           /\ page_num' = 1
           /\ IF 1 <= total
              THEN pc' = "page" /\ UNCHANGED scraped
              ELSE CompLoopEnd(all_projects)
    /\ UNCHANGED << entry, site, page_info, boot, runVars, interrupted, max_pages, indicator,
                    dataVars, nav, iter, ret, summary, csv, location, form, calls, dlVars >>

\* One pass of the loop, its head: the screenshot (an exception goes to the
\* next pass), then extract_table_data.
CompExtractPage ==
    /\ entry = "comprehensive" /\ pc = "page"
    /\ \E r \in { [ projects |-> CompExtractRows(table, current_page, 1),
                      cells |-> CompAccepted(table) ] : table \in CompTables },
          shotRaises \in BOOLEAN :
        IF shotRaises
        THEN /\ iter' = [ page |-> page_num, new |-> 0, dropped |-> FALSE,
                          navOk |-> FALSE, exit |-> "raised" ]
             /\ IF page_num < total_pages
                THEN /\ page_num' = page_num + 1
                     /\ UNCHANGED << pc, scraped >>
                ELSE /\ CompLoopEnd(all_projects)
                     /\ UNCHANGED page_num
             /\ UNCHANGED << dl, extracted, calls >>
        ELSE /\ dl' = [ dl EXCEPT !.projects = r.projects, !.i = 1 ]
             /\ extracted' = [ NotExtracted EXCEPT !.cells = r.cells ]
             /\ pc' = "acquire"
             /\ calls' = [ calls EXCEPT !.extract = @ + 1 ]
             /\ UNCHANGED << page_num, iter, scraped >>
    /\ UNCHANGED << entry, site, page_info, boot, runVars, interrupted, max_pages, current_page,
                    indicator, total_pages, all_projects, seen_project_ids,
                    offered, nav, ret, summary, csv, location, form, files, requests, acq >>

\* What the browser displays after download_pdf: driver.get(pdf_url) that
\* did not raise has put the document, or the login page, in place of the
\* listing, and nothing loads the listing again.
CompLocationAfter(loc, sent, env) ==
    IF sent # <<>> /\ sent[1] = "BROWSER_GET" /\ env.nav # "raise"
    THEN "document" ELSE loc

\* The download of one record of the page: its first link, if it has one.
CompAcquire ==
    /\ entry = "comprehensive" /\ pc = "acquire" /\ dl.i <= Len(dl.projects)
    /\ LET project == dl.projects[dl.i] IN
        IF project.pdf_links = <<>>
        THEN /\ dl' = [ dl EXCEPT !.skipped = CountSkipped(@), !.i = @ + 1, !.last = "skipped" ]
             /\ UNCHANGED << files, requests, acq, location >>
        ELSE \E env \in CompAnswers :
            LET url  == project.pdf_links[1]
                path == FileName(url, project)
                r    == CompDownloadPdf(url, project, files, driverRef, env)
            IN /\ files' = r.files
               /\ location' = CompLocationAfter(location, r.requests, env)
               /\ requests' = r.requests
               /\ acq' = [ called |-> TRUE, url |-> url, id |-> project.id,
                           path |-> path,
                           existed |-> ( /\ path \in DOMAIN files
                                         /\ files[path] \in { "data", "pdf", "junk", "partial" } ),
                           again |-> << project.id, url >> \in dl.got,
                           final |-> TRUE, head |-> "none",
                           streamed |-> "none",
                           http |-> IF ~AlreadyDownloaded(files, path) /\ driverRef
                                    THEN env.nav ELSE "none",
                           fallback |-> FALSE, filesBefore |-> files,
                           probe |-> r.probe,
                           result |-> r.result ]
               /\ IF r.result # <<>>
                  THEN dl' = [ dl EXCEPT !.projects[dl.i].pdf_file_path = r.result,
                                         !.downloaded = @ + 1, !.i = @ + 1,
                                         !.last = "downloaded",
                                         !.got = @ \cup { << project.id, url >> } ]
                  ELSE dl' = [ dl EXCEPT !.failed = CountFailed(@), !.i = @ + 1,
                                         !.last = "failed" ]
    /\ UNCHANGED << entry, site, scraperVars, pc >>

\* navigate_to_next_page: the first usable next control is clicked and True
\* is returned; False when none is found or every click raised.
CompNavigateToNextPage(clicked) == clicked

\* The listing after the next control was clicked: the following page, or
\* the page it showed before.
CompShownAfter(shown, moved) == IF moved THEN << shown[1] + 1 >> ELSE shown

\* The end of a pass: the page's records are added, then the navigation.
CompAdvance ==
    /\ entry = "comprehensive" /\ pc = "acquire" /\ dl.i > Len(dl.projects)
    /\ \E clicked \in BOOLEAN, moved \in BOOLEAN :
        LET projects == all_projects \o dl.projects
        IN /\ moved => clicked /\ page_num < total_pages /\ location = "listing"
           /\ all_projects' = projects
           /\ dl' = [ dl EXCEPT !.total = Len(projects), !.projects = <<>>, !.i = 0 ]
           /\ indicator' = CompShownAfter(indicator, moved)
           /\ calls' = IF page_num < total_pages
                       THEN [ calls EXCEPT !.navigate = @ + 1 ]
                       ELSE calls
           /\ IF page_num < total_pages
              THEN IF CompNavigateToNextPage(clicked)
                   THEN /\ current_page' = page_num + 1
                        /\ page_num' = page_num + 1
                        /\ iter' = [ page |-> page_num, new |-> Len(dl.projects),
                                     dropped |-> FALSE, navOk |-> TRUE,
                                     exit |-> "continue" ]
                        /\ pc' = "page"
                        /\ UNCHANGED scraped
                   ELSE /\ iter' = [ page |-> page_num, new |-> Len(dl.projects),
                                     dropped |-> FALSE, navOk |-> FALSE,
                                     exit |-> "navfail" ]
                        /\ CompLoopEnd(projects)
                        /\ UNCHANGED << current_page, page_num >>
              ELSE /\ iter' = [ page |-> page_num, new |-> Len(dl.projects),
                                dropped |-> FALSE, navOk |-> TRUE,
                                exit |-> "exhausted" ]
                   /\ CompLoopEnd(projects)
                   /\ UNCHANGED << current_page, page_num >>
    /\ UNCHANGED << entry, site, page_info, boot, runVars, interrupted,
                    max_pages, total_pages, seen_project_ids, offered,
                    extracted, nav, ret, summary, csv, location, form, files, requests, acq >>

\* start_scraping after scrape_all_pages: save_results (a summary file that
\* cannot be written is only logged), close_driver, return; an exception
\* that escapes a step gives [].
CompFinish ==
    /\ entry = "comprehensive" /\ pc = "post"
    /\ \E raises \in BOOLEAN, written \in BOOLEAN :
        /\ browser' = CompCloseDriver(browser, driverRef)
        /\ pc' = "returned"
        /\ ret' = IF raises \/ scraped.projects = <<>> THEN "empty" ELSE "data"
        /\ summary' = IF written THEN "saved" ELSE summary
        /\ csv' = IF raises THEN csv ELSE SaveResultsCsv(scraped.projects)
        /\ UNCHANGED << location, form, calls >>
    /\ UNCHANGED << entry, site, driverRef, interrupted, max_pages, pageVars,
                    dataVars, nav, iter, scraped, dlVars >>

\* main of comprehensive_pdf_scraper: KeyboardInterrupt is logged by main.
CompInterrupt ==
    /\ entry = "comprehensive"
    /\ pc \in { "iframe", "form", "submit", "scrape", "page", "acquire", "post" }
    /\ interrupted' = TRUE
    /\ pc' = "ended"
    /\ ProcessGone
    /\ dl' = NoDl
    /\ acq' = NoAcq
    /\ requests' = <<>>
    /\ UNCHANGED << entry, site, runVars, max_pages, ret, summary, csv, location, form, files >>

\* ------------------------------------------------------------ scrape_ecuador
\* The finally block of main: driver.quit() when the local driver is set.
EcuFinally(b, ref) == IF ref THEN "quit" ELSE b

EcuEnd ==
    /\ browser' = EcuFinally(browser, driverRef)
    /\ pc' = "ended"

\* configurar_chrome: webdriver.Chrome, then implicitly_wait; main's driver
\* is assigned only when the function returns.
EcuConfigurarChrome ==
    /\ entry = "ecuador" /\ pc = "start"
    /\ \E outcome \in { "launch_raises", "wait_raises", "wait_interrupted", "ok" } :
        /\ browser' = IF outcome = "launch_raises" THEN "none" ELSE "running"
        /\ driverRef' = (outcome = "ok")
        /\ pc' = IF outcome = "ok" THEN "nav" ELSE "ended"
        /\ interrupted' = (outcome = "wait_interrupted")
    /\ UNCHANGED << entry, site, max_pages, pageVars, dataVars, nav, iter,
                    scraped, ret, summary, csv, location, form, calls, dlVars >>

\* navegar_y_esperar, then encontrar_tabla_con_datos: a failure or an
\* exception ends main through finally.
EcuNavegar ==
    /\ entry = "ecuador" /\ pc = "nav"
    /\ \E outcome \in { "raises", "wrong_title", "no_table", "ok" } :
        IF outcome = "ok"
        THEN /\ pc' = "rows"
             /\ dl' = [ dl EXCEPT !.i = 1, !.total = MinFilas ]
             /\ UNCHANGED browser
        ELSE EcuEnd /\ UNCHANGED dl
    /\ UNCHANGED << entry, site, driverRef, interrupted, max_pages, pageVars,
                    dataVars, nav, iter, scraped, ret, summary, csv, location, form, calls, files, requests, acq >>

\* The record of a row; pdf_url <<>>: the dict has no key 'pdf_url'.
EcuProyecto(i, found) ==
    [ id |-> i, pdf_url |-> IF found THEN << Url_Doc >> ELSE <<>> ]

\* One row of the loop of main: the basic data, then the PDF URL.
EcuRow ==
    /\ entry = "ecuador" /\ pc = "rows" /\ dl.i <= dl.total
    /\ \E outcome \in { "no_data", "pdf", "no_pdf" } :
        dl' = [ dl EXCEPT !.i = @ + 1,
                          !.projects = IF outcome = "no_data" THEN @
                                       ELSE Append(@, EcuProyecto(dl.i, outcome = "pdf")),
                          !.downloaded = IF outcome = "pdf" THEN @ + 1 ELSE @,
                          !.skipped = IF outcome = "no_data" THEN @ + 1 ELSE @ ]
    /\ UNCHANGED << entry, site, pc, scraperVars, location, files, requests, acq >>

\* guardar_resultados and the summary, then finally.
EcuGuardar ==
    /\ entry = "ecuador" /\ pc = "rows" /\ dl.i > dl.total
    /\ EcuEnd
    /\ csv' = GuardarCsv(dl.projects)
    /\ UNCHANGED << location, form, calls >>
    /\ UNCHANGED << entry, site, driverRef, interrupted, max_pages, pageVars,
                    dataVars, nav, iter, scraped, ret, summary, dlVars >>

\* KeyboardInterrupt in main: except Exception does not catch it, finally runs.
EcuInterrupt ==
    /\ entry = "ecuador" /\ pc \in { "nav", "rows" }
    /\ interrupted' = TRUE
    /\ EcuEnd
    /\ dl' = NoDl
    /\ UNCHANGED << entry, site, driverRef, max_pages, pageVars, dataVars, nav,
                    iter, scraped, ret, summary, csv, location, form, calls, files, requests, acq >>

Next ==
    \/ ImpSetupDriver
    \/ ImpNavigateToIframe
    \/ ImpFillDates
    \/ ImpSubmitSearch
    \/ ImpScrapeFirstPage
    \/ ImpNavBegin
    \/ ImpNavTry
    \/ ImpExtractPage
    \/ ImpBeginDownloads
    \/ ImpDownloadNext
    \/ ImpFinish
    \/ ImpInterrupt
    \/ DlSetupSession
    \/ DlBeginProject
    \/ DlTryUrl
    \/ DlReturn
    \/ DlInvokeAgain
    \/ CompSetupDriver
    \/ CompNavigateToIframe
    \/ CompFillDates
    \/ CompSubmitSearch
    \/ CompScrapeStart
    \/ CompExtractPage
    \/ CompAcquire
    \/ CompAdvance
    \/ CompFinish
    \/ CompInterrupt
    \/ EcuConfigurarChrome
    \/ EcuNavegar
    \/ EcuRow
    \/ EcuGuardar
    \/ EcuInterrupt

Spec == Init /\ [][Next]_vars

\* ------------------------------------------------------------------ claims

\* C1: navigate_to_next_page reports success only when the indicator re-read
\* after an attempt differs from the indicator read before it; while no
\* attempt has changed the indicator, current_page keeps its value, and a
\* reported success stores exactly the re-read value.
C1_SuccessOnlyWhenIndicatorChanged ==
    nav.called =>
        /\ nav.result => ( /\ nav.done
                           /\ nav.tried # <<>>
                           /\ nav.reread # nav.pre
                           /\ current_page = nav.reread )
        /\ ~nav.result => current_page = nav.cpBefore

\* C1 witness: an attempt left the indicator unchanged and a later one moved it.
C1_Witness ==
    /\ nav.done /\ nav.result /\ Len(nav.tried) >= 2 /\ ~nav.raised

\* C2: after a navigate_to_next_page call the stored current_page is never
\* smaller than before the call.
C2_CurrentPageNeverDecreases ==
    (nav.called /\ nav.done) => current_page >= nav.cpBefore

\* C3: the strategies are tried in the order next, input, link, url, none
\* whose control was found is passed over, and False is returned only after
\* the URL rewrite was tried too.
C3_FallbackBeforeFailure ==
    nav.called =>
        /\ \A a, b \in 1..Len(nav.tried) :
              a < b => StrategyIndex(nav.tried[a]) < StrategyIndex(nav.tried[b])
        /\ SeqToSet(nav.tried) \subseteq nav.avail \cup { "url" }
        /\ \A a \in 1..Len(nav.tried) :
              \A s \in nav.avail :
                 StrategyIndex(s) < StrategyIndex(nav.tried[a])
                    => s \in SeqToSet(nav.tried)
        /\ (nav.done /\ ~nav.result) =>
              /\ nav.tried # <<>>
              /\ Last(nav.tried) = "url"
              /\ SeqToSet(nav.tried) = nav.avail \cup { "url" }

\* C3 witness: all four strategies were tried, one raised, and all failed.
C3_Witness ==
    /\ nav.done /\ ~nav.result /\ Len(nav.tried) = 4 /\ nav.raised

\* C4: when navigate_to_next_page fails, the page loop is over (no more
\* navigation, no more extraction) and scrape_all_pages returns all the
\* records accumulated so far.
C4_NavFailureKeepsPartialResults ==
    iter.exit = "navfail" =>
        /\ pc \in { "post", "download", "returned", "ended" }
        /\ scraped.done
        /\ scraped.projects = all_projects
        /\ entry = "improved" =>
              \A key \in seen_project_ids :
                 \E p \in SeqToSet(scraped.projects) : ProjectKey(p) = key

\* C4 witness: navigation failed after records had been collected.
C4_Witness ==
    /\ iter.exit = "navfail" /\ iter.page >= 3 /\ Len(scraped.projects) >= 1

\* C4 witness in ComprehensivePDFScraper: the next control was not found
\* after a page with records.
C4_WitnessComprehensive ==
    /\ entry = "comprehensive" /\ iter.exit = "navfail"
    /\ Len(scraped.projects) >= 1 /\ pc = "returned" /\ ret = "data"

\* C5: in ImprovedPaginationEcuadorScraper.scrape_all_pages a page of the
\* loop with no new record ends the loop when its position is above 10 and
\* does not end it when its position is 10 or lower.
C5_SafetyValve ==
    (entry = "improved" /\ iter.navOk /\ iter.page >= 2 /\ iter.new = 0) =>
        /\ iter.page > SafetyPage =>
              /\ iter.exit = "valve"
              /\ pc \in { "post", "download", "returned", "ended" }
        /\ (iter.page <= SafetyPage /\ iter.page < total_pages) =>
              /\ iter.exit = "continue"
              /\ ~interrupted => /\ pc \in { "loop", "nav", "extract" }
                                 /\ page_num = iter.page + 1

\* C5 witness: the valve closed the loop before the announced total.
C5_Witness ==
    /\ entry = "improved" /\ iter.exit = "valve" /\ iter.page < total_pages

\* C5 witness of the other half: a page at position 10 found nothing new and
\* the loop went on.
C5_WitnessContinue ==
    /\ entry = "improved" /\ iter.navOk /\ iter.new = 0
    /\ iter.page = SafetyPage /\ pc = "loop"

\* C6: whenever start_scraping has returned after the browser was launched,
\* the browser has been released before the return, in both scraper classes.
C6_BrowserReleasedOnReturn ==
    (entry \in { "improved", "comprehensive" } /\ pc = "returned"
        /\ browser # "none") => browser = "quit"

\* C7: when a KeyboardInterrupt arrived after the browser was launched, the
\* browser has been released by the time the program has ended, in each of
\* the three entry points.
C7_InterruptReleasesBrowser ==
    (interrupted /\ pc = "ended" /\ browser # "none") => browser = "quit"

\* No (title, description) pair occurs twice in a list of records.
NoDuplicatePairs(projects) ==
    \A a, b \in 1..Len(projects) :
        (a # b) => << projects[a].title, projects[a].description >>
                     # << projects[b].title, projects[b].description >>

\* C8: of rows with the same (title, description) only the first is kept:
\* the result list holds no pair twice, each kept record added one key to
\* the seen set, and every emitted pair's key is in that set.
C8_DuplicatesDropped ==
    entry = "improved" =>
        /\ NoDuplicatePairs(all_projects)
        /\ Cardinality(seen_project_ids) = Len(all_projects)
        /\ \A pair \in offered :
              /\ pair[1] \o "_" \o pair[2] \in seen_project_ids
              /\ \E p \in SeqToSet(all_projects) :
                    ProjectKey(p) = pair[1] \o "_" \o pair[2]

\* C8 witness: a duplicate row was dropped from a page after the first.
C8_Witness ==
    /\ entry = "improved" /\ iter.dropped /\ iter.page >= 2
    /\ Len(all_projects) >= 2

\* C9: a download_pdf call that finds a non-empty file at the expected path
\* returns that path, issues no request at all (no HEAD, no GET, no browser
\* navigation) and leaves every file as it was.
C9_ExistingFileNoRequest ==
    (acq.called /\ acq.existed) =>
        /\ acq.result = << acq.path >>
        /\ requests = <<>>
        /\ files = acq.filesBefore

\* C9 witness: the second call for a record and URL whose first call
\* returned the file's path.
C9_Witness ==
    /\ entry = "downloader" /\ acq.called /\ acq.again /\ acq.existed
    /\ dl.downloaded >= 2

\* C9 witness in ComprehensivePDFScraper: the file of the record was left
\* by an earlier run.
C9_WitnessComprehensive ==
    /\ entry = "comprehensive" /\ acq.called /\ acq.existed
    /\ acq.result # <<>> /\ dl.downloaded >= 1

\* C10 as stated: once the probe of a record's URL has failed, the record is
\* counted as failed.
C10_ProbeFailureIsRecorded ==
    (entry = "downloader" /\ dl.probeFailed /\ dl.last # "none")
        => dl.last = "failed"

\* C10: the streaming GET is sent only after test_pdf_access succeeded; a
\* failed probe makes download_pdf return None with no file written; the
\* caller then goes on to the record's next URL, and counts the record as
\* failed only when the call for its last URL returned None too.
C10_ProbeGatesDownload ==
    (entry = "downloader" /\ acq.called) =>
        /\ "GET" \in SeqToSet(requests) => acq.probe = "ok"
        /\ acq.probe = "fail" =>
              /\ acq.result = <<>>
              /\ files = acq.filesBefore
              /\ "GET" \notin SeqToSet(requests)
              /\ dl.probeFailed =>
                    IF ~acq.final
                    THEN pc = "dl_url" /\ dl.last = "none"
                    ELSE pc \in { "dl_project", "ended" } /\ dl.last = "failed"
        /\ dl.last = "failed" => acq.result = <<>>
        /\ dl.last = "downloaded" => acq.result # <<>>

\* C10 witness: the probe of a record's first URL failed, the next URL was
\* downloaded with a streaming GET.
C10_Witness ==
    /\ entry = "downloader" /\ dl.probeFailed /\ dl.last = "downloaded"
    /\ "GET" \in SeqToSet(requests)

\* C11: when the HEAD of the probe answers with content type text/html, the
\* call returns None and no GET is sent for the URL, neither the GET of the
\* probe nor the streaming GET, also for a URL that ends in .pdf.
C11_HtmlProbeNoGet ==
    (entry = "downloader" /\ acq.called /\ acq.head = "html") =>
        /\ acq.result = <<>>
        /\ "GET_PROBE" \notin SeqToSet(requests)
        /\ "GET" \notin SeqToSet(requests)

\* C12: once download_pdf has streamed a payload to the file, a payload that
\* does not start with %PDF stays on disk and its path is returned; a payload
\* of zero bytes leaves no file at the path and None is returned.
C12_PayloadVerification ==
    (entry = "downloader" /\ acq.called) =>
        /\ acq.streamed = "junk" =>
              /\ acq.result = << acq.path >>
              /\ acq.path \in DOMAIN files /\ files[acq.path] = "junk"
        /\ acq.streamed = "empty" =>
              /\ acq.result = <<>>
              /\ acq.path \notin DOMAIN files

\* C12 witness: a zero-byte payload replaced an empty file left by an earlier
\* run, and the file is gone.
C12_Witness ==
    /\ entry = "downloader" /\ acq.streamed = "empty"
    /\ acq.path \in DOMAIN acq.filesBefore /\ acq.path \notin DOMAIN files

\* C12 witness of the other half: a payload without the header was kept.
C12_WitnessKept ==
    /\ entry = "downloader" /\ acq.streamed = "junk" /\ dl.last = "downloaded"

\* C13: in download_pdf_for_project, when the streaming download fails (a
\* network or HTTP error, a broken stream, or a response whose content type
\* is not PDF), download_pdf_with_selenium is called before the record is
\* given up.
C13_FallbackAfterStreamingFailure ==
    (entry = "improved" /\ acq.called
       /\ acq.http \in { "raise", "stream_raises", "wrong_type" }) =>
        acq.fallback

\* C14: when the acquisition of a record that has a candidate URL fails on
\* every attempt, the failed counter grows by exactly one, the other counters
\* stay, and the loop goes on with the next position of the list (no
\* exception leaves the loop).
C14_FailureCountedOnce ==
    [][ ( /\ dl.i \in 1..Len(dl.projects)
          /\ ~interrupted'
          /\ acq'.called /\ acq'.result = <<>>
          /\ \/ /\ entry = "improved" /\ pc = "download"
                /\ dl.projects[dl.i].document_url # NoUrl
             \/ /\ entry = "downloader" /\ pc = "dl_url" /\ acq'.final
             \/ /\ entry = "comprehensive" /\ pc = "acquire"
                /\ dl.projects[dl.i].pdf_links # <<>> )
        => /\ dl'.failed = dl.failed + 1
           /\ dl'.downloaded = dl.downloaded
           /\ dl'.skipped = dl.skipped
           /\ dl'.i = dl.i + 1
           /\ pc' \in { "download", "dl_project", "acquire" } ]_vars

\* C14 witness: a record failed and the record after it was downloaded.
C14_Witness ==
    /\ entry = "improved" /\ dl.failed = 1 /\ dl.i = 3 /\ dl.last = "downloaded"
    /\ dl.projects[1].pdf_file_path = <<>> /\ dl.projects[1].document_url # NoUrl

C14_WitnessDownloader ==
    /\ entry = "downloader" /\ dl.failed = 1 /\ dl.i = 3 /\ dl.last = "downloaded"

C14_WitnessComprehensive ==
    /\ entry = "comprehensive" /\ dl.failed = 1 /\ dl.downloaded = 1
    /\ dl.last = "downloaded"

\* C15: when ComprehensivePDFScraper.download_pdf finds a login or
\* authentication wall after navigating to the document URL, it returns None
\* having looked up no download button and run no in-page fetch, the URL is
\* requested once only, pdfs_failed grows by one for the record and the page
\* loop goes on with the next record.
C15_AuthWallGivesUp ==
    [][ ( /\ entry = "comprehensive" /\ pc = "acquire" /\ ~interrupted'
          /\ dl.i \in 1..Len(dl.projects)
          /\ dl.projects[dl.i].pdf_links # <<>>
          /\ acq'.http = "login" )
        => /\ acq'.result = <<>>
           /\ requests' = << "BROWSER_GET" >>
           /\ files' = files
           /\ dl'.failed = dl.failed + 1
           /\ dl'.downloaded = dl.downloaded
           /\ dl'.projects = dl.projects
           /\ dl'.i = dl.i + 1
           /\ pc' = "acquire" ]_vars

\* C15 witness: a record met the wall although a file of an earlier run with
\* its id is in the directory, and was counted as failed.
C15_Witness ==
    /\ entry = "comprehensive" /\ acq.called /\ acq.http = "login"
    /\ dl.last = "failed" /\ requests = << "BROWSER_GET" >>
    /\ Globbed(acq.filesBefore, acq.id) # {} /\ files = acq.filesBefore

\* C16: every dialog the interactive tier opened gets a close attempt before
\* the next row: the close control is clicked when there is a usable one,
\* and otherwise (no usable control, or the click fails) the escape key is
\* sent, whether or not a link was found in the dialog.
C16_DialogGetsCloseAttempt ==
    \A k \in 1..Len(extracted.dialogs) :
        LET d == extracted.dialogs[k]
        IN \/ d.done.click = "clicked"
           \/ d.done.escape \in { "sent", "raises" }

\* A row whose "Ver Documentos" buttons all failed to give a dialog: the
\* click raised, or no dialog was displayed after the wait.
TriggerFailed(row) ==
    /\ row.buttons # <<>>
    /\ \A k \in 1..Len(row.buttons) :
          /\ row.buttons[k].kind = "dialog"
          /\ row.buttons[k].click \in { "raises", "no_dialog" }

\* C17: when triggering the interactive tier of a row raises or no dialog
\* appears, extract_table_data still emits the row's record, and the
\* record's pdf_links and document_url are what the direct-link tier found.
C17_TriggerFailureKeepsDirectLinks ==
    \A j \in DOMAIN extracted.rows :
        LET row == extracted.rows[j]
        IN (TriggerFailed(row) /\ (row.cells[1] # "" \/ row.cells[2] # "")) =>
              \E i \in 1..Len(extracted.records) :
                 LET p == extracted.records[i]
                     d == DirectTier(Project(row.cells, p.page_number, j), row)
                 IN /\ p.id = << p.page_number, 1, j >>
                    /\ p.has_pdf_links = d.has_pdf_links
                    /\ p.pdf_links = d.pdf_links
                    /\ p.document_url = d.document_url

\* C17 witness: the click raised in a row with a direct anchor, and the
\* record came out with the anchor's link.
C17_Witness ==
    \E j \in DOMAIN extracted.rows :
        /\ TriggerFailed(extracted.rows[j])
        /\ extracted.rows[j].buttons[1].click = "raises"
        /\ extracted.rows[j].anchors # <<>>
        /\ \E i \in 1..Len(extracted.records) :
              /\ extracted.records[i].id[3] = j
              /\ extracted.records[i].document_url = extracted.rows[j].anchors[1].href

\* The same when no dialog appeared.
C17_WitnessNoDialog ==
    \E j \in DOMAIN extracted.rows :
        /\ TriggerFailed(extracted.rows[j])
        /\ extracted.rows[j].buttons[1].click = "no_dialog"
        /\ extracted.rows[j].anchors # <<>>
        /\ \E i \in 1..Len(extracted.records) :
              /\ extracted.records[i].id[3] = j
              /\ extracted.records[i].pdf_links # <<>>

\* C18: in every record the row extractor emits no URL occurs twice in
\* pdf_links; a row whose only document reference is one direct anchor with
\* href U gives pdf_links = [U] and document_url = U.
C18_LinksAreUnique ==
    \A i \in 1..Len(extracted.records) :
        LET p   == extracted.records[i]
            row == extracted.rows[p.id[3]]
        IN /\ \A a, b \in 1..Len(p.pdf_links) :
                 p.pdf_links[a] = p.pdf_links[b] => a = b
           /\ (Len(row.anchors) = 1 /\ row.buttons = <<>>) =>
                 /\ p.pdf_links = << row.anchors[1].href >>
                 /\ p.document_url = row.anchors[1].href

\* document_url is pdf_links[0] when there are links, and is empty exactly
\* when there are none.
PrimaryIsFirstLink(project) ==
    /\ project.pdf_links # <<>> => project.document_url = project.pdf_links[1]
    /\ project.document_url = NoUrl <=> project.pdf_links = <<>>

\* C19: in every record extract_table_data emits, document_url equals
\* pdf_links[0] when pdf_links is present and non-empty, and is the empty
\* string exactly when the record has no pdf_links.
C19_DocumentUrlIsFirstLink ==
    /\ \A i \in 1..Len(extracted.records) :
          PrimaryIsFirstLink(extracted.records[i])
    /\ (entry = "comprehensive" /\ pc = "acquire") =>
          \A i \in 1..Len(dl.projects) : PrimaryIsFirstLink(dl.projects[i])

\* C20: the acquisition stage changes nothing in a record except attaching
\* pdf_file_path: id, text fields, document_url and pdf_links are after
\* download_pdfs_from_data / download_pdfs_for_projects what they were
\* before.
C20_AcquisitionKeepsRecords ==
    (entry \in { "downloader", "improved" } /\ dl.before # <<>>) =>
        /\ Len(dl.projects) = Len(dl.before)
        /\ \A i \in 1..Len(dl.projects) :
              /\ dl.projects[i].id = dl.before[i].id
              /\ dl.projects[i].title = dl.before[i].title
              /\ dl.projects[i].document_url = dl.before[i].document_url
              /\ dl.projects[i].pdf_links = dl.before[i].pdf_links

\* A row in which neither link search finds an anchor, no button names a URL
\* in its onclick, and no dialog shows a link.
NoLinkDiscoverable(row) ==
    /\ \A k \in 1..Len(row.anchors) :
          /\ ~row.anchors[k].href.ends_pdf
          /\ row.anchors[k].text \notin { "ver", "documento" }
    /\ \A k \in 1..Len(row.buttons) :
          /\ row.buttons[k].kind = "dialog"
          /\ row.buttons[k].click # "dialog" \/ row.buttons[k].links = <<>>

\* The download loop stands at a record without any link.
AtRecordWithoutLink ==
    /\ dl.i \in 1..Len(dl.projects)
    /\ dl.projects[dl.i].document_url = NoUrl
    /\ dl.projects[dl.i].pdf_links = <<>>
    /\ \/ entry = "improved" /\ pc = "download"
       \/ entry = "downloader" /\ pc = "dl_project"
       \/ entry = "comprehensive" /\ pc = "acquire"

\* C21: a row without a discoverable document link still gives a record (with
\* no document_url and no pdf_links), and in the download stage a record
\* without links adds exactly one to skipped, nothing to downloaded or failed,
\* and no acquisition call is made for it (no request, no file touched).
C21_NoLinkIsSkipped ==
    /\ [] ( \A j \in DOMAIN extracted.rows :
              LET row == extracted.rows[j]
              IN ( /\ NoLinkDiscoverable(row)
                   /\ Len(row.cells) >= 2
                   /\ row.cells[1] # "" \/ row.cells[2] # "" ) =>
                    \E i \in 1..Len(extracted.records) :
                       /\ extracted.records[i].id[3] = j
                       /\ extracted.records[i].document_url = NoUrl
                       /\ extracted.records[i].pdf_links = <<>> )
    /\ [][ ( (AtRecordWithoutLink /\ ~interrupted') =>
                /\ dl'.skipped = dl.skipped + 1
                /\ dl'.downloaded = dl.downloaded
                /\ dl'.failed = dl.failed
                /\ dl'.i = dl.i + 1
                /\ dl'.projects = dl.projects
                /\ UNCHANGED << files, requests, acq >> )
            /\
            ( ( /\ entry = "improved" /\ pc = "post" /\ pc' = "download"
                /\ \A i \in 1..Len(scraped.projects) :
                      scraped.projects[i].document_url = NoUrl ) =>
                /\ dl'.skipped = Len(scraped.projects)
                /\ dl'.downloaded = 0 /\ dl'.failed = 0
                /\ dl'.projects = scraped.projects
                /\ UNCHANGED << files, requests, acq >> ) ]_vars

\* C21 witness: the click of a row's only button raised, the row has no
\* anchor, its record came out without links and was skipped, and the record
\* after it was downloaded.
C21_Witness ==
    /\ entry = "improved" /\ pc = "download"
    /\ dl.skipped = 1 /\ dl.downloaded = 1 /\ dl.failed = 0 /\ dl.i = 3
    /\ 1 \in DOMAIN extracted.rows
    /\ NoLinkDiscoverable(extracted.rows[1])
    /\ extracted.rows[1].buttons # <<>>
    /\ dl.projects[1].id[3] = 1 /\ dl.projects[1].pdf_file_path = <<>>

\* C21 witnesses in the other two programs.
C21_WitnessDownloader ==
    /\ entry = "downloader" /\ dl.skipped = 1 /\ dl.downloaded = 1
    /\ dl.last = "skipped"

C21_WitnessComprehensive ==
    /\ entry = "comprehensive" /\ dl.skipped = 1 /\ dl.downloaded = 1
    /\ dl.last = "skipped"

\* How many cells of a row have text.
NonEmptyCells(cells) == Cardinality({ k \in 1..Len(cells) : cells[k] # "" })

\* C22: extract_table_data emits a record for a row only if at least 2 of
\* the row's cells are non-empty, and never for the first row of a table.
C22_TwoNonEmptyCells ==
    \A i \in 1..Len(extracted.records) :
        LET j == extracted.records[i].id[3]
        IN /\ j >= 1
           /\ j \in DOMAIN extracted.rows
           /\ NonEmptyCells(extracted.rows[j].cells) >= 2

\* The fields of a record are the cells of its row by position, '' where the
\* row has no such cell.
Positional(project, cells) ==
    /\ project.title = Cell(cells, 1)
    /\ project.description = Cell(cells, 2)
    /\ project.status = Cell(cells, 3)
    /\ project.date_created = Cell(cells, 4)
    /\ project.author = Cell(cells, 5)
    /\ project.committee = Cell(cells, 6)

\* C23: in the records of both row extractors cell 0 is the title, 1 the
\* description, 2 the status, 3 the date, 4 the author and 5 the committee,
\* and a field whose cell the row does not have is the empty string.
C23_PositionalFields ==
    /\ \A i \in 1..Len(extracted.records) :
          Positional(extracted.records[i],
                     extracted.rows[extracted.records[i].id[3]].cells)
    /\ (entry = "comprehensive" /\ pc = "acquire") =>
          \A i \in 1..Len(dl.projects) :
             Positional(dl.projects[i], extracted.cells[dl.projects[i].id[3]])

\* C24: when the page text holds neither a page-count pattern nor a
\* total-records phrase, and also when reading the page raises,
\* get_total_records_and_pages returns 2742 records, 275 pages, 10 items per
\* page and current page 1, and scrape_all_pages goes on with these.
C24_DefaultsWhenUndiscoverable ==
    ( /\ page_info.called
      /\ \/ page_info.raised
         \/ \A k \in 1..Len(page_info.text) : page_info.text[k].kind = "other" ) =>
        /\ page_info.result = [ total_records |-> 2742, total_pages |-> 275,
                                items_per_page |-> 10, current_page |-> 1 ]
        /\ total_pages = Min(275, max_pages)
        /\ current_page = 1

\* C24 witness: reading the page raised although its text shows a page count.
C24_Witness ==
    /\ page_info.called /\ page_info.raised
    /\ \E k \in 1..Len(page_info.text) : page_info.text[k].kind = "pagina"
    /\ pc = "post" /\ total_pages = 1

\* C24 witness: text without any pattern.
C24_WitnessNoPattern ==
    /\ page_info.called /\ ~page_info.raised
    /\ Len(page_info.text) = 2
    /\ \A k \in 1..Len(page_info.text) : page_info.text[k].kind = "other"
    /\ pc = "post"

\* C25: the page-count patterns are tried in the order "N of M", "Página N
\* de M", "N/M", "N de M"; current and total come from the first match of the
\* first pattern that has one, whatever later patterns and the total-records
\* phrases would give; the text "Página 3 de 275" gives current page 3 and
\* total pages 275.
C25_FirstPatternWins ==
    (page_info.called /\ ~page_info.raised) =>
        LET text  == page_info.text
            order == << "of", "pagina", "slash", "de" >>
            hits(n) == { i \in 1..Len(text) : PatternMatches(order[n], text[i]) }
        IN /\ \A k \in 1..4 :
                 (hits(k) # {} /\ \A n \in 1..(k - 1) : hits(n) = {}) =>
                     LET first == CHOOSE i \in hits(k) : \A i2 \in hits(k) : i <= i2
                     IN /\ page_info.result.current_page = text[first].a
                        /\ page_info.result.total_pages = text[first].b
                        /\ current_page = text[first].a
           /\ text = << Phrase("pagina", 3, 275) >> =>
                 /\ page_info.result.current_page = 3
                 /\ page_info.result.total_pages = 275

\* C25 witness: "N/M" stands in the text before "Página N de M", and the
\* result is that of the latter.
C25_Witness ==
    /\ page_info.called /\ ~page_info.raised
    /\ Len(page_info.text) = 2
    /\ page_info.text[1].kind = "slash" /\ page_info.text[2].kind = "pagina"
    /\ page_info.result.current_page = 3

\* C25 witness: the text "Página 3 de 275".
C25_WitnessExample ==
    /\ page_info.called /\ ~page_info.raised
    /\ page_info.text = << Phrase("pagina", 3, 275) >>
    /\ page_info.result.total_pages = 275 /\ current_page = 3

\* C25 witness: a total-records phrase stands before a page count.
C25_WitnessTotalIgnored ==
    /\ page_info.called /\ ~page_info.raised
    /\ Len(page_info.text) = 2
    /\ page_info.text[1].kind = "total_records" /\ page_info.text[2].kind = "de"
    /\ page_info.result.total_pages = 9

\* C26: when the bounded wait for the body element times out,
\* navigate_to_iframe still reports success: start_scraping does not return
\* and goes on to the search form (and from there to the page loop), in both
\* scraper classes.
C26_BodyWaitTimeoutContinues ==
    [][ (pc = "iframe" /\ boot' = "wait_timeout") =>
            /\ pc' = "form"
            /\ ret' = "none"
            /\ browser' = "running" ]_vars

\* C27: when start_scraping has returned in a run that got past the
\* bootstrap (browser launched, entry URL reached), it has returned a result
\* set, possibly the empty one, and the summary of the run has been saved,
\* also when no record was collected and when a later step raised.
C27_RunEndsWithResultAndSummary ==
    ( /\ entry \in { "improved", "comprehensive" }
      /\ pc = "returned" /\ boot = "passed" ) =>
        /\ ret \in { "data", "empty" }
        /\ summary = "saved"

\* ---------------------------------------------------------------------------
\* C28: the counters downloaded, failed and skipped start from zero for each
\* download run, and after each invocation of download_pdfs_from_data or
\* download_pdfs_for_projects over n records downloaded + failed + skipped =
\* total = n, with downloaded the number of records that carry pdf_file_path;
\* also after a second invocation on the same downloader object.
DownloadRunOver ==
    \/ entry = "downloader" /\ pc = "ended"
    \/ entry = "improved" /\ pc = "download" /\ dl.i > Len(dl.projects)

WithFilePath(projects) ==
    { k \in 1..Len(projects) : projects[k].pdf_file_path # <<>> }

C28_CountersPerInvocation ==
    DownloadRunOver =>
        /\ dl.downloaded + dl.failed + dl.skipped = dl.total
        /\ dl.total = Len(dl.projects)
        /\ dl.downloaded = Cardinality(WithFilePath(dl.projects))

\* ---------------------------------------------------------------------------
\* C29: in ComprehensivePDFScraper's page loop the next pass is entered, with
\* current_page advanced, only after a navigation that changed what the
\* listing shows; a click that leaves it unchanged is a navigation failure
\* and ends the loop.
CompNavigationDue ==
    /\ entry = "comprehensive" /\ pc = "acquire"
    /\ dl.i > Len(dl.projects) /\ page_num < total_pages

C29_AdvanceOnlyAfterVerifiedMove ==
    [][ CompNavigationDue =>
            /\ (pc' = "page" => indicator' # indicator)
            /\ (indicator' = indicator => (pc' = "post" /\ iter'.exit = "navfail"))
      ]_vars

\* ---------------------------------------------------------------------------
\* C30: when the processing of a page raises inside the page loop, the loop
\* goes on, the records of earlier pages are kept, and the next pass works on
\* another page of the listing than the one that failed.
ImpPageRaises == entry = "improved" /\ pc = "extract" /\ extracted'.raised

CompPageRaises ==
    /\ entry = "comprehensive" /\ pc = "page"
    /\ iter'.exit = "raised" /\ iter'.page = page_num

C30_ImprovedRaisedPage ==
    /\ []((entry = "improved" /\ pc = "extract" /\ extracted.raised) =>
            (nav.result /\ nav.reread # nav.pre))
    /\ [][ ImpPageRaises =>
              /\ all_projects' = all_projects
              /\ (page_num < total_pages => pc' = "loop") ]_vars

C30_ComprehensiveRaisedPage ==
    [][ CompPageRaises =>
            /\ all_projects' = all_projects
            /\ (page_num < total_pages => (pc' = "page" /\ indicator' # indicator))
      ]_vars

C30_RaisedPageIsSkipped == C30_ImprovedRaisedPage /\ C30_ComprehensiveRaisedPage

\* ---------------------------------------------------------------------------
\* C31: the header of the CSV file is the union of the field names of all
\* records and the file has one row per record, for save_results and for
\* guardar_resultados, also when only some records carry an extra field.
SavedRecords == IF entry = "comprehensive" THEN scraped.projects ELSE dl.projects

SavedKeys(k) ==
    IF entry = "comprehensive" THEN CompKeys(SavedRecords[k])
    ELSE EcuKeys(SavedRecords[k])

C31_CsvHeaderIsUnion ==
    (entry \in { "comprehensive", "ecuador" } /\ csv.written) =>
        /\ csv.header = UNION { SavedKeys(k) : k \in 1..Len(SavedRecords) }
        /\ csv.rows = Len(SavedRecords)

\* The same for guardar_resultados alone.
C31_GuardarWritesAll ==
    (entry = "ecuador" /\ csv.written) =>
        /\ csv.header = UNION { SavedKeys(k) : k \in 1..Len(SavedRecords) }
        /\ csv.rows = Len(SavedRecords)

\* ---------------------------------------------------------------------------
\* C32: in ComprehensivePDFScraper.scrape_all_pages the browser displays the
\* results listing at every call of navigate_to_next_page and at every
\* extract_table_data after the first.
CompLaterExtractionDue ==
    entry = "comprehensive" /\ pc = "page" /\ page_num > 1

C32_ListingShownInLoop ==
    (CompNavigationDue \/ CompLaterExtractionDue) => location = "listing"

\* ---------------------------------------------------------------------------
\* C33: whenever an acquisition operation returns a file path, a file exists
\* at that path and its size is greater than zero.
C33_ReturnedPathHasContent ==
    (acq.called /\ acq.result # <<>>) =>
        /\ acq.result[1] \in DOMAIN files
        /\ files[acq.result[1]] \notin { "absent", "empty" }

\* The same for ImprovedPDFDownloader.download_pdf and
\* ComprehensivePDFScraper.download_pdf alone.
C33_SizeCheckedWhereTested ==
    (entry \in { "downloader", "comprehensive" } /\ acq.called /\ acq.result # <<>>) =>
        /\ acq.result[1] \in DOMAIN files
        /\ files[acq.result[1]] \notin { "absent", "empty" }

\* ---------------------------------------------------------------------------
\* C34: find_and_fill_date_inputs never types the end date into an input that
\* its placeholder, name or id identifies as a start-date field, whatever
\* list of inputs the selectors return, and it types each of the two dates
\* into at most one input.
TypedCount(date) ==
    Cardinality({ k \in 1..Len(form.typed) : form.typed[k] = date })

C34_StartFieldNeverGetsEndDate ==
    form.called =>
        /\ \A k \in 1..Len(form.inputs) :
              IsStart(form.inputs[k]) => form.typed[k] # "end_date"
        /\ TypedCount("start_date") <= 1
        /\ TypedCount("end_date") <= 1

\* The second half alone: each date is typed at most once.
C34_EachDateTypedOnce ==
    form.called => (TypedCount("start_date") <= 1 /\ TypedCount("end_date") <= 1)

\* ---------------------------------------------------------------------------
\* C35: within one run no two records of the accumulated result list have the
\* same synthetic id page_N_table_M_row_K, whatever page indicators the site
\* shows and whichever pages fail.
UniqueIds(projects) ==
    \A i, j \in 1..Len(projects) : projects[i].id = projects[j].id => i = j

C35_SyntheticIdsUnique ==
    entry \in { "improved", "comprehensive" } => UniqueIds(all_projects)

\* The same for ComprehensivePDFScraper alone.
C35_ComprehensiveIdsUnique ==
    entry = "comprehensive" => UniqueIds(all_projects)

\* ---------------------------------------------------------------------------
\* C36: deduplication never drops a record whose (title, description) pair
\* differs from that of every record seen earlier in the run: every pair the
\* extractor emitted is the pair of a record of the result list.
C36_DistinctPairsAreKept ==
    entry = "improved" =>
        \A pair \in offered :
            \E k \in 1..Len(all_projects) :
                << all_projects[k].title, all_projects[k].description >> = pair

\* --------------------------------------------------------------------- C37
\* scrape_all_pages of either scraper class has returned.
ScrapeReturned == entry \in { "improved", "comprehensive" } /\ scraped.done

\* C37, ImprovedPaginationEcuadorScraper: a run whose scrape_all_pages has
\* returned has extracted a page, whatever total the page announced.
C37_ImprovedExtractsFirstPage ==
    (entry = "improved" /\ scraped.done) => calls.extract >= 1

\* C37: every run of either class whose scrape_all_pages went through the
\* page loop and returned normally has extracted the first results page,
\* also when the page does not tell how many pages there are.
C37_FirstPageAlwaysExtracted ==
    (ScrapeReturned /\ iter.exit # "raised") => calls.extract >= 1

\* --------------------------------------------------------------------- C38
\* A run of one of the two scraper classes.
ScraperRun == entry \in { "improved", "comprehensive" }

\* C38, the discovered total: no more pages are extracted than the total
\* scrape_all_pages works with (the discovered total, capped), and
\* navigate_to_next_page is called at most once less.
C38_WithinWorkingTotal ==
    ScraperRun =>
        /\ calls.extract >= 1 => calls.extract <= total_pages
        /\ calls.navigate >= 1 => calls.navigate <= total_pages - 1

\* C38, a positive max_pages: no more than max_pages pages are extracted and
\* navigate_to_next_page is called at most max_pages - 1 times.
C38_PositiveCapRespected ==
    (ScraperRun /\ max_pages >= 1) =>
        /\ calls.extract <= max_pages
        /\ calls.navigate >= 1 => calls.navigate <= max_pages - 1

\* C38: with max_pages given as a non-negative integer (0 included), the
\* number of pages extracted in the run never exceeds max_pages nor the
\* total, and the number of navigation calls never exceeds that number
\* minus one.
C38_CapRespected ==
    ScraperRun =>
        /\ calls.extract <= max_pages
        /\ calls.extract >= 1 => calls.extract <= total_pages
        /\ calls.navigate >= 1 => calls.navigate <= Min(max_pages, total_pages) - 1

\* --------------------------------------------------------------------- C39
\* self.stats as download_pdfs_from_data returns it.
DlCounters(d) == << d.downloaded, d.failed, d.skipped, d.total >>

\* document_url, then the pdf_links as stored, of a record as handed in.
StoredOrder(record) ==
    (IF record.document_url # NoUrl THEN << record.document_url >> ELSE <<>>)
        \o record.pdf_links

\* C39: download_pdfs_from_data tries a record's document_url first and then
\* its pdf_links in their stored order, goes to the next record at the first
\* URL whose download_pdf returns a path, makes no download_pdf call unless
\* setup_session returned True in this call, and returns the counters as they
\* were when setup_session returns False.
C39_UrlsInOrderAfterSetup ==
    [][ entry = "downloader" =>
          /\ pc = "dl_url" =>
               LET urls == StoredOrder(dl.before[dl.i])
               IN /\ dl.session = "ok"
                  /\ acq'.called /\ acq'.url = urls[dl.u]
                  /\ IF acq'.result # <<>> \/ dl.u = Len(urls)
                     THEN dl'.i = dl.i + 1 /\ pc' = "dl_project"
                     ELSE dl'.i = dl.i /\ dl'.u = dl.u + 1 /\ pc' = "dl_url"
          /\ (pc # "dl_url" /\ pc' = "dl_url") =>
               dl.session = "ok" /\ dl'.u = 1
          /\ pc # "dl_url" => acq' = acq /\ requests' = requests
          /\ dl'.session = "failed" =>
               DlCounters(dl') = DlCounters(dl) /\ pc' = "ended"
      ]_vars

\* C39 witness: a record whose document_url failed and whose stored link was
\* then acquired.
C39_WitnessSecondUrl ==
    /\ entry = "downloader" /\ dl.i >= 2 /\ dl.last = "downloaded"
    /\ dl.before[dl.i - 1].document_url = Url_View
    /\ dl.before[dl.i - 1].pdf_links = << Url_Doc >>
    /\ acq.called /\ acq.url = Url_Doc /\ acq.result # <<>>

\* C39 witness: setup_session failed in a second call, after a first call
\* that downloaded a file; the counters are those of the first call.
C39_WitnessSetupFailed ==
    /\ entry = "downloader" /\ pc = "ended"
    /\ dl.second /\ dl.session = "failed" /\ dl.downloaded >= 1

=========================================================================
